---- MODULE Spec2Model ----
(***************************************************************************)
(* electron-inject: the CDP session (connectToCDP), the evaluation bridge   *)
(* (executeJS), the HTTP handlers (POST /execute, POST /execute/stream) and *)
(* the shutdown handlers of the REPL/HTTP server.                           *)
(* The model follows the full server (src/unnamed/part_000, lines 304 to    *)
(* 1376); src/unnamed/part_001 carries the same connectToCDP and executeJS. *)
(***************************************************************************)
EXTENDS Integers, Sequences, FiniteSets, TLC

(***************************************************************************)
(* Bounds of the model.                                                     *)
(***************************************************************************)
\* HTTP requests that can be in flight at once (caller 0 is the REPL side).
NumHttp == 1
\* CDP() calls the process may issue in one run.
MaxAttempts == 2
\* Notifications the target sends in one run.
MaxNotifications == 2
\* Lines the REPL reads in one run.
MaxLines == 3
\* Lines the REPL reads in the run that fills `history`.
MaxHistoryLines == 101
\* Chunks read from the response of a monitored call.
MaxChunks == 2
\* Keys typed into one line of input.
MaxInput == 2
\* Calls of window.fetch the page makes while it is intercepted.
MaxCalls == 2

Callers == 0..NumHttp
ReplCaller == 0
Transports == 1..MaxAttempts

(***************************************************************************)
(* JavaScript values.  Every value is a record of the same shape: its       *)
(* typeof tag t, a printed payload s and, for objects, the properties       *)
(* `error` and `stack` the program reads.  ABSENT stands for a property or  *)
(* protocol field that is not there (JavaScript's undefined).               *)
(***************************************************************************)
ABSENT == "<absent>"

Prim(t, s) == [t |-> t, s |-> s, error |-> ABSENT, stack |-> ABSENT]
Undefined == Prim("undefined", "")
Null == Prim("null", "")
Num(s) == Prim("number", s)
Str(s) == Prim("string", s)
Bool(s) == Prim("boolean", s)
Obj(s, error, stack) == [t |-> "object", s |-> s, error |-> error, stack |-> stack]

\* JavaScript ToBoolean of a string-or-undefined field (x || y, x && y).
TruthyStr(x) == x # ABSENT /\ x # ""

\* a || b on string-or-undefined operands
OrElse(a, b) == IF TruthyStr(a) THEN a ELSE b

\* JavaScript ToBoolean of a value
Truthy(v) ==
  CASE v.t = "undefined" -> FALSE
    [] v.t = "null" -> FALSE
    [] v.t = "boolean" -> v.s = "true"
    [] v.t = "number" -> v.s \notin {"0", "NaN"}
    [] v.t = "string" -> v.s # ""
    [] OTHER -> TRUE

NoStack == "No stack available"

(***************************************************************************)
(* The reply of Runtime.evaluate (the descriptor):                          *)
(*   exc            exceptionDetails is present                             *)
(*   text           exceptionDetails.text                                   *)
(*   excDescription exceptionDetails.exception?.description                 *)
(*   hasResult      the reply has a `result` object                         *)
(*   value          result.value (Undefined when the field is absent)       *)
(*   type           result.type                                             *)
(*   className      result.className                                        *)
(***************************************************************************)
Values ==
  { Num("0"), Num("42"), Str(""), Str("a"), Bool("false"), Null,
    Obj("{a:1}", ABSENT, ABSENT), Obj("{error:'x'}", "x", ABSENT) }

TypeTags == {"object", "function", "undefined", "number", "string", "symbol"}
ClassNames == {ABSENT, "", "HTMLDivElement", "Object"}
ExcDescriptions == {ABSENT, "", "Error: boom at <anonymous>:1:7"}
ExcTexts == {"Uncaught"}

Descriptors ==
  [ exc : BOOLEAN, text : ExcTexts, excDescription : ExcDescriptions,
    hasResult : BOOLEAN, value : Values \cup {Undefined},
    type : TypeTags, className : ClassNames ]

Desc(exc, excDescription, value, type, className) ==
  [ exc |-> exc, text |-> "Uncaught", excDescription |-> excDescription,
    hasResult |-> TRUE, value |-> value, type |-> type, className |-> className ]

\* The replies the concurrent specification draws from: a value, a thrown
\* exception and an object handle.
MainDescriptors ==
  { Desc(FALSE, ABSENT, Num("42"), "number", ABSENT),
    Desc(TRUE, "Error: boom at <anonymous>:1:7", Undefined, "object", "Object"),
    Desc(FALSE, ABSENT, Undefined, "object", "HTMLDivElement") }

\* err.message of the errors the transport raises
TransportErrors == {"connect ECONNREFUSED 127.0.0.1:9222", "WebSocket is not open"}
\* err.message of the TypeError raised by result.result.value on a reply
\* without a result object
TypeErrorMessage == "Cannot read properties of undefined (reading 'value')"

(***************************************************************************)
(* executeJS, the part after the reply has arrived.                         *)
(***************************************************************************)
\* an error that leaves an async function: its promise is rejected with err
Thrown(msg) == [t |-> "thrown", s |-> msg, error |-> ABSENT, stack |-> ABSENT]

\* executeJS without its catch branch: err leaves executeJS
CatchResultRethrows(msg) == Thrown(msg)

\* the catch branch of executeJS: return { error: err.message }
CatchResult(msg) == Obj("", msg, ABSENT)

\* return { error: exceptionDetails.text,
\*          stack: exceptionDetails.exception?.description || "No stack available" }
ExceptionResult(d) == Obj("", d.text, OrElse(d.excDescription, NoStack))

\* HasValue with a truthiness test: if (result.result.value)
HasValueTruthy(d) == Truthy(d.value)

\* result.result.value !== undefined
HasValue(d) == d.value # Undefined

\* result.result.type === 'object' && result.result.className
IsObjectHandle(d) == d.type = "object" /\ TruthyStr(d.className)

\* ReduceResult without the className rule
ReduceResultTypeOnly(d) ==
  IF HasValue(d) THEN d.value
  ELSE IF d.type = "function" THEN Str("[Function]")
  ELSE IF d.type = "undefined" THEN Undefined
  ELSE Str("[" \o d.type \o "]")

\* ReduceResult without the function rule
ReduceResultNoFunction(d) ==
  IF HasValue(d) THEN d.value
  ELSE IF IsObjectHandle(d) THEN Str("[" \o d.className \o "]")
  ELSE IF d.type = "undefined" THEN Undefined
  ELSE Str("[" \o d.type \o "]")

\* the value/type rules of executeJS on a reply that has a result object
ReduceResult(d) ==
  IF HasValue(d) THEN d.value
  ELSE IF IsObjectHandle(d) THEN Str("[" \o d.className \o "]")
  ELSE IF d.type = "function" THEN Str("[Function]")
  ELSE IF d.type = "undefined" THEN Undefined
  ELSE Str("[" \o d.type \o "]")

\* Reduce with the value rule tried before the exception rule
ReduceValueFirst(d) ==
  IF d.hasResult /\ HasValue(d) THEN d.value
  ELSE IF d.exc THEN ExceptionResult(d)
  ELSE IF ~d.hasResult THEN CatchResult(TypeErrorMessage)
  ELSE ReduceResult(d)

\* executeJS on the reply d of Runtime.evaluate
Reduce(d) ==
  IF d.exc THEN ExceptionResult(d)
  ELSE IF ~d.hasResult THEN CatchResult(TypeErrorMessage)
  ELSE ReduceResult(d)

(***************************************************************************)
(* State of the process.                                                    *)
(*   activeClient   the cached Session, as the id of its transport; 0 is    *)
(*                  null                                                    *)
(*   attempts       CDP() calls issued so far; the k-th call gets transport *)
(*                  id k                                                    *)
(*   tstate         per transport: "none", "pending" (CDP() not settled),   *)
(*                  "failed", "open", "closed"                              *)
(*   closeCalls     per transport: calls of client.close()                  *)
(*   enableCalls    per transport: calls of Runtime.enable()                *)
(*   bootstrapEvals per transport: evaluations of domInspectionTools sent   *)
(*   bootstrapDone  per transport: of these, the ones that settled          *)
(*   subscribers    per transport: Runtime.consoleAPICalled registrations   *)
(*   pc, op         per caller: where its async call is suspended, and      *)
(*                  which call it is ("startREPL" or "executeJS")           *)
(*   client         per caller: connectToCDP's local `client`               *)
(*   entry          per caller: activeClient as read by the guard at the    *)
(*                  head of its connectToCDP call                           *)
(*   sess           per caller: the Session connectToCDP returned to it     *)
(*   reply          per caller: what settled its call (a descriptor, or the *)
(*                  error and the step that raised it)                      *)
(*   ret            per caller: the value executeJS returned                *)
(*   proc, exitCode the process: "running" or "exited", and its status      *)
(*   replReady      startREPL's handlers (line, SIGINT, keypress) are       *)
(*                  installed                                               *)
(*   firstSession   history: the first Session that was cached              *)
(*   route          per caller: the HTTP route of its request ("execute",   *)
(*                  "stream"), "none" for the REPL side                     *)
(*   res            per caller: the HTTP response (status, body, the        *)
(*                  event-stream frames, calls of res.end())                *)
(*   listeners      per caller: request-scoped handlers attached by its     *)
(*                  streaming request and not removed                       *)
(*   arrived        console notifications delivered to the process          *)
(*   rendered       console notifications written to the REPL surface       *)
(*   repl           the terminal side: the startup stage, the readline      *)
(*                  interfaces created, `history` and `historyIndex`, the   *)
(*                  lines dispatched, the line each pending handler call    *)
(*                  works on, what the handlers printed, the prompts shown  *)
(*   shown          the console notification last written to the terminal:  *)
(*                  its arguments and the text printed for them             *)
(*   mon            the in-page monitorApiCall: its promise, its message    *)
(*                  log, what the callback was given                        *)
(***************************************************************************)
VARIABLES activeClient, attempts, tstate, closeCalls, enableCalls,
          bootstrapEvals, bootstrapDone, subscribers,
          pc, op, client, entry, sess, reply, ret,
          proc, exitCode, replReady, firstSession,
          route, res, listeners, arrived, rendered,
          repl, shown, mon

vars == << activeClient, attempts, tstate, closeCalls, enableCalls,
           bootstrapEvals, bootstrapDone, subscribers,
           pc, op, client, entry, sess, reply, ret,
           proc, exitCode, replReady, firstSession,
           route, res, listeners, arrived, rendered,
           repl, shown, mon >>

transportVars == << attempts, tstate, enableCalls, bootstrapEvals,
                    bootstrapDone, subscribers >>
callVars == << pc, op, client, entry, sess, reply, ret >>
procVars == << proc, exitCode >>
httpVars == << route, res, listeners, arrived, rendered >>
uiVars == << repl, shown, mon >>
\* the state of the Node process (all but the page's)
nodeVars == << activeClient, transportVars, closeCalls, callVars, procVars,
              replReady, firstSession, httpVars, repl, shown >>

NoDesc == Desc(FALSE, ABSENT, Undefined, "undefined", ABSENT)
NoReply == [kind |-> "none", at |-> "none", msg |-> ABSENT, d |-> NoDesc]
ErrorReply(at, msg) == [kind |-> "error", at |-> at, msg |-> msg, d |-> NoDesc]
DescReply(d) == [kind |-> "desc", at |-> "evaluate", msg |-> ABSENT, d |-> d]
\* no value returned (yet)
NoRet == Prim("<none>", "")
\* a response nothing has been written to.
\*   code       req.body.code
\*   live       a Session was cached when the request arrived
\*   status     the status set by res.status(), 0 when none was set
\*   key, body  the field and the value of the JSON body sent by res.json()
\*   sse        the event-stream headers were set
\*   frames     the frames written before the response ended
\*   ends       calls of res.end() (res.json() ends the response too)
\*   lateWrites calls of res.write() after the response had ended
\*   overlapped another caller's evaluation was pending when executeJS
\*              returned to the handler
NoRes ==
  [ code |-> ABSENT, live |-> FALSE, status |-> 0, key |-> "none",
    body |-> NoRet, sse |-> FALSE, frames |-> << >>, ends |-> 0,
    lateWrites |-> 0, overlapped |-> FALSE ]

(***************************************************************************)
(* Lines of the terminal.  A line is the sequence of its pieces, a run of   *)
(* whitespace being the piece WS; String.trim() drops the whitespace at     *)
(* both ends, startsWith compares the leading pieces.                       *)
(***************************************************************************)
WS == " "

RECURSIVE TrimStart(_)
TrimStart(l) == IF l # << >> /\ Head(l) = WS THEN TrimStart(Tail(l)) ELSE l

RECURSIVE TrimEnd(_)
TrimEnd(l) ==
  IF l # << >> /\ l[Len(l)] = WS THEN TrimEnd(SubSeq(l, 1, Len(l) - 1)) ELSE l

\* line.trim()
Trim(l) == TrimEnd(TrimStart(l))

\* line.startsWith(prefix)
StartsWith(l, prefix) ==
  Len(l) >= Len(prefix) /\ SubSeq(l, 1, Len(prefix)) = prefix

\* the special commands of the line handler
ExitLine == << ".exit" >>
ClearLine == << ".clear" >>
HelpLine == << ".help" >>
LoadPrefix == << ".load", WS >>
\* line.slice(6).trim()
LoadPath(l) == Trim(SubSeq(l, Len(LoadPrefix) + 1, Len(l)))
\* the prefix the line handler looks for before it prints a result
ConsoleLogPrefix == << "console.log" >>

\* the line a handler call works on: none
NoLine == [kind |-> "none", text |-> << >>, seq |-> 0]

\* the terminal side before app.listen's callback has run.
\*   startup      "listen" (the callback has not run), "script" (the --script
\*                evaluation is pending), "started" (startREPL was called)
\*   starts       calls of startREPL (readline interfaces created)
\*   scriptRuns   executeJS calls made for --script
\*   scriptShown  what the startup code did about --script: "none" (no
\*                outcome yet), "result" (the evaluation settled, its result
\*                was printed), "nothing" (it settled with undefined,
\*                nothing was printed), "failed" (it was rejected, 'Script
\*                execution failed' was printed), "readError" (the read
\*                error was printed)
\*   history, historyIndex   startREPL's `history` and `historyIndex`
\*   reads        calls of the line handler
\*   dispatched   of these, the calls for a line that is not empty
\*   line         per caller: the line its pending handler call works on
\*   log          what the finished handler calls of evaluated and loaded
\*                lines did, in the order they finished
\*   prompts      calls of rl.prompt()
\*   fileErrors   "Failed to load or execute file" messages printed
\*   input, cursor   rl.line and rl.cursor: the text typed and not yet
\*                submitted, and the position in it
\*   via          what set the input last: "none", "typed", "up", "down",
\*                or "enter" (a nonempty line was submitted)
\*   lastVia      `via` of the line submitted last
\*   scriptRet    what executeJS(scriptContent) returned
\*   scriptClient the connection attempt executeJS(scriptContent) made (0:
\*                none)
NoRepl ==
  [ startup |-> "listen", starts |-> 0, scriptRuns |-> 0, scriptShown |-> "none",
    history |-> << >>, historyIndex |-> 0, reads |-> 0, dispatched |-> 0,
    line |-> [c \in Callers |-> NoLine], log |-> << >>,
    prompts |-> 0, fileErrors |-> 0,
    input |-> << >>, cursor |-> 0, via |-> "none", lastVia |-> "none",
    scriptRet |-> NoRet, scriptClient |-> 0 ]

(***************************************************************************)
(* Console notifications: args.map(arg => arg.value || arg.description)     *)
(*                            .join(' ')                                    *)
(***************************************************************************)
\* an argument of Runtime.consoleAPICalled: its value (Undefined when the
\* field is absent) and its description (ABSENT when the field is absent)
Arg(value, description) == [value |-> value, description |-> description]

\* arg.value || arg.description
RenderArg(arg) ==
  IF Truthy(arg.value) THEN arg.value
  ELSE IF arg.description = ABSENT THEN Undefined
  ELSE Str(arg.description)

\* what Array.prototype.join prints for one element: nothing for undefined
\* and null, String(element) otherwise
JoinItem(v) ==
  IF v.t \in {"undefined", "null"} THEN ""
  ELSE IF v.t = "object" THEN "[object Object]"
  ELSE v.s

\* items.join(' ')
RECURSIVE JoinSpace(_)
JoinSpace(items) ==
  IF items = << >> THEN ""
  ELSE IF Len(items) = 1 THEN JoinItem(items[1])
  ELSE JoinItem(items[1]) \o " " \o JoinSpace(Tail(items))

\* args.map(arg => arg.value || arg.description).join(' ')
RenderArgs(args) == JoinSpace([i \in 1..Len(args) |-> RenderArg(args[i])])

\* nothing written to the terminal yet.
\*   args, text   the arguments of the notification written last and the
\*                text written for them
\*   ownLine      the terminal line was cleared before the text was written
\*   redrawn      the prompt was redrawn after the text
\*   prompt, cursor   the input and cursor the prompt was redrawn with
NoShown == [args |-> << >>, text |-> ABSENT, ownLine |-> FALSE,
            redrawn |-> FALSE, prompt |-> << >>, cursor |-> 0]

(***************************************************************************)
(* monitorApiCall, the helper evaluated in the page.                        *)
(*   state      the promise: "off" (not called), "active" (pending),        *)
(*              "resolved", "rejected"                                      *)
(*   timed      a timeout above 0 was passed                                *)
(*   timer      the timeout timer is set                                    *)
(*   hooked     window.fetch is the intercepting function                   *)
(*   callback   a callback was passed                                       *)
(*   call       the calls of the intercepting function, see NoCall          *)
(*   chunks     chunks read from the responses                              *)
(*   log        messageLog                                                  *)
(*   given      the messages passed to the callback                         *)
(*   value      what the promise was settled with                           *)
(*   by         the call whose completion resolved the promise (0: none)    *)
(*   logAtSettle  messageLog as it was when the promise was settled         *)
(***************************************************************************)
PageCalls == 1..MaxCalls

\* what a call of fetch gives: nothing yet, a response (with its bodyUsed
\* flag), or an error
NoOutcome == [kind |-> "none", bodyUsed |-> FALSE]
OriginalResponse == [kind |-> "response", bodyUsed |-> FALSE]
OriginalError == [kind |-> "error", bodyUsed |-> FALSE]

\* a call of the intercepting function.
\*   phase    "none", "awaiting" (originalFetch is pending), "streaming"
\*            (processStream reads the clone), "finished"
\*   match    isMatch
\*   hasBody  options.body is set
\*   stream   the chunks read from the clone, in the order of the stream
\*   orig     what originalFetch gave
\*   app      what the page's call of fetch received
NoCall == [phase |-> "none", match |-> FALSE, hasBody |-> FALSE,
           stream |-> << >>, orig |-> NoOutcome, app |-> NoOutcome]

NoValue == [kind |-> "none", hasLog |-> FALSE, error |-> ABSENT]
NoMon ==
  [ state |-> "off", timed |-> FALSE, timer |-> FALSE, hooked |-> FALSE,
    callback |-> FALSE, call |-> [k \in PageCalls |-> NoCall], chunks |-> 0,
    log |-> << >>, given |-> << >>, value |-> NoValue, by |-> 0,
    logAtSettle |-> << >> ]

Init ==
  /\ activeClient = 0
  /\ attempts = 0
  /\ tstate = [t \in Transports |-> "none"]
  /\ closeCalls = [t \in Transports |-> 0]
  /\ enableCalls = [t \in Transports |-> 0]
  /\ bootstrapEvals = [t \in Transports |-> 0]
  /\ bootstrapDone = [t \in Transports |-> 0]
  /\ subscribers = [t \in Transports |-> 0]
  /\ pc = [c \in Callers |-> "idle"]
  /\ op = [c \in Callers |-> "none"]
  /\ client = [c \in Callers |-> 0]
  /\ entry = [c \in Callers |-> 0]
  /\ sess = [c \in Callers |-> 0]
  /\ reply = [c \in Callers |-> NoReply]
  /\ ret = [c \in Callers |-> NoRet]
  /\ proc = "running"
  /\ exitCode = 0
  /\ replReady = FALSE
  /\ firstSession = 0
  /\ route = [c \in Callers |-> "none"]
  /\ res = [c \in Callers |-> NoRes]
  /\ listeners = [c \in Callers |-> {}]
  /\ arrived = 0
  /\ rendered = 0
  /\ repl = NoRepl
  /\ shown = NoShown
  /\ mon = NoMon

(***************************************************************************)
(* The line handler's bookkeeping.                                          *)
(***************************************************************************)
\* HistoryPush appending every line
HistoryPushAlways(h, l) == Append(h, l)

\* if (history.length === 0 || history[history.length - 1] !== line)
\*   history.push(line)
HistoryPush(h, l) ==
  IF h = << >> \/ h[Len(h)] # l THEN Append(h, l) ELSE h

\* readline has taken the line out of rl.line before it calls the handler
LineTaken(r) == [r EXCEPT !.input = << >>, !.cursor = 0]

\* the handler has been called for the trimmed, nonempty line l: the push,
\* and `historyIndex = history.length` when the line was pushed
Dispatched(r, l) ==
  [LineTaken(r) EXCEPT
            !.via = "enter",
            !.lastVia = r.via,
            !.reads = @ + 1,
            !.dispatched = @ + 1,
            !.history = HistoryPush(@, l),
            !.historyIndex = IF HistoryPush(r.history, l) # r.history
                               THEN Len(HistoryPush(r.history, l)) ELSE @]

\* rl.prompt(preserveCursor) putting the cursor at 0 in both cases
RlPromptResets(r, preserveCursor) == [r EXCEPT !.cursor = 0]

\* rl.prompt(preserveCursor): readline redraws the prompt and rl.line; the
\* cursor goes to 0 unless preserveCursor
RlPrompt(r, preserveCursor) ==
  [r EXCEPT !.cursor = IF preserveCursor THEN @ ELSE 0]

\* rl.prompt() at the end of a handler call
Prompted(r) == [RlPrompt(r, FALSE) EXCEPT !.prompts = @ + 1]

\* the handler has been called for an empty line: rl.prompt(); return
Skipped(r) == Prompted([LineTaken(r) EXCEPT !.reads = @ + 1, !.via = "none"])

\* `let rl` has been assigned by startREPL
HasRl(r) == r.starts > 0

\* the console subscriber writes a notification: clearLine, cursorTo(0),
\* console.log, and rl.prompt(true) when rl is set
ConsoleWrite(event, r) ==
  [ args |-> event.args, text |-> RenderArgs(event.args), ownLine |-> TRUE,
    redrawn |-> HasRl(r),
    prompt |-> IF HasRl(r) THEN RlPrompt(r, TRUE).input ELSE << >>,
    cursor |-> IF HasRl(r) THEN RlPrompt(r, TRUE).cursor ELSE 0 ]

\* the readline interface after the subscriber has run
AfterConsoleWrite(r) == IF HasRl(r) THEN RlPrompt(r, TRUE) ELSE r

(***************************************************************************)
(* Shutdown: the handlers all run `if (activeClient) client.close()`, and   *)
(* process.exit() emits 'exit' synchronously, which runs the 'exit'         *)
(* handler before the process ends.                                         *)
(***************************************************************************)
\* CloseActive closing every open connection, cached or not
CloseActiveAnyOpen(cc) ==
  [t \in Transports |-> IF tstate[t] = "open" THEN cc[t] + 1 ELSE cc[t]]

\* if (activeClient) { activeClient.client.close(); }   -- on the call counts
CloseActive(cc) ==
  IF activeClient # 0 THEN [cc EXCEPT ![activeClient] = @ + 1] ELSE cc

\* the same, on the transports' states
CloseActiveState(ts) ==
  IF activeClient # 0 THEN [ts EXCEPT ![activeClient] = "closed"] ELSE ts

\* process.on('exit', ...)
ExitHandler(cc) == CloseActive(cc)

\* process.exit(code): Node emits 'exit', the handler runs, the process ends
ProcessExit(cc, ts, code) ==
  /\ closeCalls' = ExitHandler(cc)
  /\ tstate' = CloseActiveState(ts)
  /\ proc' = "exited"
  /\ exitCode' = code

\* process.on('SIGINT', ...): close, then process.exit(0)
ProcessSIGINT ==
  /\ proc = "running"
  /\ ProcessExit(CloseActive(closeCalls), tstate, 0)
  /\ UNCHANGED << activeClient, attempts, enableCalls, bootstrapEvals,
                  bootstrapDone, subscribers, callVars, replReady, firstSession >>
  /\ UNCHANGED httpVars
  /\ UNCHANGED uiVars

\* rl.on('SIGINT', ...): close, rl.close(), process.exit(0)
RlSIGINT ==
  /\ proc = "running"
  /\ replReady
  /\ ProcessExit(CloseActive(closeCalls), tstate, 0)
  /\ UNCHANGED << activeClient, attempts, enableCalls, bootstrapEvals,
                  bootstrapDone, subscribers, callVars, replReady, firstSession >>
  /\ UNCHANGED httpVars
  /\ UNCHANGED uiVars

\* DotExit ending the process with status 1
DotExitStatus1 ==
  /\ proc = "running"
  /\ replReady
  /\ ProcessExit(CloseActive(closeCalls), tstate, 1)
  /\ repl' = Dispatched(repl, ExitLine)
  /\ UNCHANGED << activeClient, attempts, enableCalls, bootstrapEvals,
                  bootstrapDone, subscribers, callVars, replReady, firstSession >>
  /\ UNCHANGED httpVars
  /\ UNCHANGED << shown, mon >>

\* the line handler on '.exit': the line is pushed on `history`, then close,
\* rl.close(), process.exit(0)
DotExit ==
  /\ proc = "running"
  /\ replReady
  /\ ProcessExit(CloseActive(closeCalls), tstate, 0)
  /\ repl' = Dispatched(repl, ExitLine)
  /\ UNCHANGED << activeClient, attempts, enableCalls, bootstrapEvals,
                  bootstrapDone, subscribers, callVars, replReady, firstSession >>
  /\ UNCHANGED httpVars
  /\ UNCHANGED << shown, mon >>

\* The process ends for another reason (an uncaught exception in a
\* callback): Node emits 'exit' and only the 'exit' handler runs.
UncaughtExit ==
  /\ proc = "running"
  /\ ProcessExit(closeCalls, tstate, 1)
  /\ UNCHANGED << activeClient, attempts, enableCalls, bootstrapEvals,
                  bootstrapDone, subscribers, callVars, replReady, firstSession >>
  /\ UNCHANGED httpVars
  /\ UNCHANGED uiVars

(***************************************************************************)
(* connectToCDP and executeJS.  An async call runs to its next await in one *)
(* step; the steps of different callers interleave at the awaits.           *)
(***************************************************************************)
\* if (activeClient) { return activeClient; }
HasSession == activeClient # 0

\* connectToCDP past the guard, up to `await CDP({ port })`
ConnectHead(c) ==
  /\ attempts < MaxAttempts
  /\ attempts' = attempts + 1
  /\ tstate' = [tstate EXCEPT ![attempts + 1] = "pending"]
  /\ client' = [client EXCEPT ![c] = attempts + 1]
  /\ pc' = [pc EXCEPT ![c] = "connecting"]
  /\ sess' = [sess EXCEPT ![c] = 0]

\* The caller's continuation once connectToCDP has returned Session s:
\* executeJS sends Runtime.evaluate on it; startREPL's .then installs the
\* REPL's handlers.
Returned(c, s) ==
  /\ sess' = [sess EXCEPT ![c] = s]
  /\ IF op'[c] = "executeJS"
       THEN pc' = [pc EXCEPT ![c] = "evaluating"] /\ UNCHANGED replReady
       ELSE pc' = [pc EXCEPT ![c] = "done"] /\ replReady' = TRUE

\* Throw with startREPL's .catch ending the process with status 0
ThrowExitsZero(c, at, msg, ts) ==
  /\ reply' = [reply EXCEPT ![c] = ErrorReply(at, msg)]
  /\ pc' = [pc EXCEPT ![c] = "done"]
  /\ IF op[c] = "executeJS"
       THEN /\ ret' = [ret EXCEPT ![c] = CatchResult(msg)]
            /\ tstate' = ts
            /\ UNCHANGED << closeCalls, procVars >>
       ELSE /\ ProcessExit(closeCalls, ts, 0)
            /\ UNCHANGED ret

\* connectToCDP rethrows err.  executeJS catches it and returns
\* { error: err.message }; startREPL's .catch calls process.exit(1).
Throw(c, at, msg, ts) ==
  /\ reply' = [reply EXCEPT ![c] = ErrorReply(at, msg)]
  /\ pc' = [pc EXCEPT ![c] = "done"]
  /\ IF op[c] = "executeJS"
       THEN /\ ret' = [ret EXCEPT ![c] = CatchResult(msg)]
            /\ tstate' = ts
            /\ UNCHANGED << closeCalls, procVars >>
       ELSE /\ ProcessExit(closeCalls, ts, 1)
            /\ UNCHANGED ret

\* startREPL(), called with the terminal side as r: rl is created, then
\* connectToCDP().then(...).catch(...)
StartREPLFrom(r) ==
  /\ op' = [op EXCEPT ![ReplCaller] = "startREPL"]
  /\ entry' = [entry EXCEPT ![ReplCaller] = activeClient]
  /\ IF HasSession
       THEN /\ Returned(ReplCaller, activeClient)
            /\ UNCHANGED << attempts, tstate, client >>
       ELSE /\ ConnectHead(ReplCaller)
            /\ UNCHANGED replReady
  /\ repl' = [r EXCEPT !.starts = @ + 1, !.startup = "started"]
  /\ UNCHANGED << activeClient, closeCalls, enableCalls, bootstrapEvals,
                  bootstrapDone, subscribers, procVars, firstSession >>
  /\ UNCHANGED << res, listeners, arrived, rendered, shown, mon >>

\* app.listen's callback without --script: startREPL()
StartREPL ==
  /\ proc = "running"
  /\ ~replReady
  /\ pc[ReplCaller] = "idle"
  /\ repl.startup = "listen"
  /\ StartREPLFrom(repl)
  /\ UNCHANGED << reply, ret, route >>

\* executeJS(code), up to its first await that needs the target
ExecuteJSFrom(c) ==
  /\ proc = "running"
  /\ pc[c] = "idle"
  /\ op' = [op EXCEPT ![c] = "executeJS"]
  /\ entry' = [entry EXCEPT ![c] = activeClient]
  /\ IF HasSession
       THEN /\ Returned(c, activeClient)
            /\ UNCHANGED << attempts, tstate, client >>
       ELSE /\ ConnectHead(c)
            /\ UNCHANGED replReady
  /\ UNCHANGED << activeClient, closeCalls, enableCalls, bootstrapEvals,
                  bootstrapDone, subscribers, reply, ret, procVars, firstSession >>

\* executeJS(code) called by a handler.  Caller 0 is the REPL's line handler,
\* which exists once startREPL has installed it.
ExecuteJSCall(c) ==
  /\ c = ReplCaller => replReady
  /\ ExecuteJSFrom(c)

\* executeJS(code) called by the REPL (a line, .load) or by a request whose
\* response is not followed
ExecuteJS(c) == ExecuteJSCall(c) /\ UNCHANGED httpVars /\ UNCHANGED uiVars

\* ConnectReply caching the Session as soon as the transport is open
ConnectReplyCachesEarly(c, ok, msg) ==
  /\ proc = "running"
  /\ pc[c] = "connecting"
  /\ IF ok
       THEN /\ tstate' = [tstate EXCEPT ![client[c]] = "open"]
            /\ enableCalls' = [enableCalls EXCEPT ![client[c]] = @ + 1]
            /\ pc' = [pc EXCEPT ![c] = "enabling"]
            /\ activeClient' = client[c]
            /\ UNCHANGED << closeCalls, procVars, reply, ret >>
       ELSE /\ Throw(c, "connect", msg, [tstate EXCEPT ![client[c]] = "failed"])
            /\ UNCHANGED << enableCalls, activeClient >>
  /\ UNCHANGED << attempts, bootstrapEvals, bootstrapDone,
                  subscribers, op, client, entry, sess, replReady, firstSession >>
  /\ UNCHANGED httpVars
  /\ UNCHANGED uiVars

\* `await CDP({ port })` settles.  On success: const { Runtime } = client;
\* Runtime.enable() is called.
ConnectReply(c, ok, msg) ==
  /\ proc = "running"
  /\ pc[c] = "connecting"
  /\ IF ok
       THEN /\ tstate' = [tstate EXCEPT ![client[c]] = "open"]
            /\ enableCalls' = [enableCalls EXCEPT ![client[c]] = @ + 1]
            /\ pc' = [pc EXCEPT ![c] = "enabling"]
            /\ UNCHANGED << closeCalls, procVars, reply, ret >>
       ELSE /\ Throw(c, "connect", msg, [tstate EXCEPT ![client[c]] = "failed"])
            /\ UNCHANGED enableCalls
  /\ UNCHANGED << activeClient, attempts, bootstrapEvals, bootstrapDone,
                  subscribers, op, client, entry, sess, replReady, firstSession >>
  /\ UNCHANGED httpVars
  /\ UNCHANGED uiVars

\* `await Runtime.enable()` settles.  On success the helper script
\* domInspectionTools is sent for evaluation.
EnableReply(c, ok, msg) ==
  /\ proc = "running"
  /\ pc[c] = "enabling"
  /\ IF ok
       THEN /\ bootstrapEvals' = [bootstrapEvals EXCEPT ![client[c]] = @ + 1]
            /\ pc' = [pc EXCEPT ![c] = "bootstrapping"]
            /\ UNCHANGED << tstate, closeCalls, procVars, reply, ret >>
       ELSE /\ Throw(c, "enable", msg, tstate)
            /\ UNCHANGED bootstrapEvals
  /\ UNCHANGED << activeClient, attempts, enableCalls, bootstrapDone,
                  subscribers, op, client, entry, sess, replReady, firstSession >>
  /\ UNCHANGED httpVars
  /\ UNCHANGED uiVars

\* activeClient = { client, Runtime };
CacheSession(c) == client[c]

\* `await Runtime.evaluate({ expression: domInspectionTools })` settles.  On
\* success the Session is cached, the console subscriber is registered and
\* activeClient is returned.
BootstrapReply(c, ok, msg) ==
  /\ proc = "running"
  /\ pc[c] = "bootstrapping"
  /\ IF ok
       THEN /\ bootstrapDone' = [bootstrapDone EXCEPT ![client[c]] = @ + 1]
            /\ activeClient' = CacheSession(c)
            /\ firstSession' = IF firstSession = 0 THEN activeClient' ELSE firstSession
            /\ subscribers' = [subscribers EXCEPT ![client[c]] = @ + 1]
            /\ UNCHANGED op
            /\ Returned(c, activeClient')
            /\ UNCHANGED << tstate, closeCalls, procVars, reply, ret >>
       ELSE /\ Throw(c, "bootstrap", msg, tstate)
            /\ UNCHANGED << activeClient, firstSession, bootstrapDone,
                            subscribers, op, sess, replReady >>
  /\ UNCHANGED << attempts, enableCalls, bootstrapEvals, client, entry >>
  /\ UNCHANGED httpVars
  /\ UNCHANGED uiVars

\* EvalReply taken only while no other caller's evaluation is pending
EvalReplyExclusive(c, d) ==
  /\ proc = "running"
  /\ pc[c] = "evaluating"
  /\ \A c2 \in Callers \ {c} : pc[c2] # "evaluating"
  /\ reply' = [reply EXCEPT ![c] = DescReply(d)]
  /\ ret' = [ret EXCEPT ![c] = Reduce(d)]
  /\ pc' = [pc EXCEPT ![c] = "done"]
  /\ UNCHANGED << activeClient, transportVars, closeCalls, op, client, entry,
                  sess, procVars, replReady, firstSession >>
  /\ UNCHANGED httpVars
  /\ UNCHANGED uiVars

\* `await Runtime.evaluate({ expression: code, ... })` settles with the
\* reply d: executeJS returns its reduction.
EvalReply(c, d) ==
  /\ proc = "running"
  /\ pc[c] = "evaluating"
  /\ reply' = [reply EXCEPT ![c] = DescReply(d)]
  /\ ret' = [ret EXCEPT ![c] = Reduce(d)]
  /\ pc' = [pc EXCEPT ![c] = "done"]
  /\ UNCHANGED << activeClient, transportVars, closeCalls, op, client, entry,
                  sess, procVars, replReady, firstSession >>
  /\ UNCHANGED httpVars
  /\ UNCHANGED uiVars

\* EvalError dropping the Session on a transport error: close it, clear the
\* cache
EvalErrorDropsSession(c, msg) ==
  /\ proc = "running"
  /\ pc[c] = "evaluating"
  /\ reply' = [reply EXCEPT ![c] = ErrorReply("evaluate", msg)]
  /\ ret' = [ret EXCEPT ![c] = CatchResult(msg)]
  /\ pc' = [pc EXCEPT ![c] = "done"]
  /\ closeCalls' = CloseActive(closeCalls)
  /\ tstate' = CloseActiveState(tstate)
  /\ activeClient' = 0
  /\ UNCHANGED << attempts, enableCalls, bootstrapEvals, bootstrapDone,
                  subscribers, op, client, entry, sess, procVars, replReady,
                  firstSession >>
  /\ UNCHANGED httpVars
  /\ UNCHANGED uiVars

\* `await Runtime.evaluate(...)` rejects (the transport failed): the catch
\* branch of executeJS returns { error: err.message }.
EvalError(c, msg) ==
  /\ proc = "running"
  /\ pc[c] = "evaluating"
  /\ reply' = [reply EXCEPT ![c] = ErrorReply("evaluate", msg)]
  /\ ret' = [ret EXCEPT ![c] = CatchResult(msg)]
  /\ pc' = [pc EXCEPT ![c] = "done"]
  /\ UNCHANGED << activeClient, transportVars, closeCalls, op, client, entry,
                  sess, procVars, replReady, firstSession >>
  /\ UNCHANGED httpVars
  /\ UNCHANGED uiVars

\* The caller has used the outcome (printed it, sent the HTTP response); its
\* slot is free for the next call.
Finish(c) ==
  /\ proc = "running"
  /\ pc[c] = "done"
  /\ route[c] = "none"
  /\ pc' = [pc EXCEPT ![c] = "idle"]
  /\ op' = [op EXCEPT ![c] = "none"]
  /\ client' = [client EXCEPT ![c] = 0]
  /\ entry' = [entry EXCEPT ![c] = 0]
  /\ sess' = [sess EXCEPT ![c] = 0]
  /\ reply' = [reply EXCEPT ![c] = NoReply]
  /\ ret' = [ret EXCEPT ![c] = NoRet]
  /\ UNCHANGED << activeClient, transportVars, closeCalls, procVars,
                  replReady, firstSession >>
  /\ UNCHANGED httpVars
  /\ UNCHANGED uiVars

(***************************************************************************)
(* The HTTP surface: POST /execute and POST /execute/stream, and the        *)
(* notifications of the target.                                             *)
(***************************************************************************)
\* the HTTP requests in flight
HttpCallers == Callers \ {ReplCaller}

\* req.body.code: absent, the empty string, a script
Codes == {ABSENT, "", "document.title"}

\* if (!code)
MissingCodeNever(code) == FALSE
MissingCode(code) == ~TruthyStr(code)

\* the properties of the object cached by `activeClient = { client, Runtime }`
SessionPropsEmitter == {"client", "Runtime", "on", "removeListener"}
SessionProps == {"client", "Runtime"}

\* err.message of the TypeError raised by calling a property the object
\* does not have
NotAFunction(m) == "activeClient." \o m \o " is not a function"

\* the events of the target the handlers name
ConsoleAPICalled == "Runtime.consoleAPICalled"
ExecutionContextDestroyed == "Runtime.executionContextDestroyed"
Events ==
  { [method |-> ConsoleAPICalled, args |-> << Arg(Str("a"), ABSENT) >>],
    [method |-> ExecutionContextDestroyed, args |-> << >>] }

\* JSON.stringify leaves out a property whose value is undefined
JsonField(v) == IF v = Undefined THEN NoRet ELSE v

\* the frames of the event stream
ConsoleFrame(msg) == [type |-> "console", data |-> NoRet, message |-> msg]
ResultFrame(v) == [type |-> "result", data |-> JsonField(v), message |-> ABSENT]
ErrorFrame(msg) == [type |-> "error", data |-> NoRet, message |-> msg]
DoneFrame == [type |-> "done", data |-> NoRet, message |-> ABSENT]

\* res.write(frame)
ResWrite(r, f) ==
  IF r.ends = 0 THEN [r EXCEPT !.frames = Append(@, f)]
  ELSE [r EXCEPT !.lateWrites = @ + 1]

\* res.end()
ResEnd(r) == [r EXCEPT !.ends = @ + 1]

\* res.status(400).json({ error: 'No code provided' })
NoCodeResponse(r) ==
  [r EXCEPT !.status = 400, !.key = "error", !.body = Str("No code provided"),
            !.ends = @ + 1]

\* res.json({ result }): no status is set, Express sends 200
ResultResponse(r, v) ==
  [r EXCEPT !.status = 200, !.key = IF v = Undefined THEN "none" ELSE "result",
            !.body = JsonField(v), !.ends = @ + 1]

\* the catch branch of /execute: res.status(500).json({ error: err.message })
ErrorResponse(r, msg) ==
  [r EXCEPT !.status = 500, !.key = "error", !.body = Str(msg), !.ends = @ + 1]

\* the catch branch of the streaming handler
StreamCatch(r, msg) == ResEnd(ResWrite(r, ErrorFrame(msg)))

\* messageHandler(event) of the request whose response is r
MessageHandler(r, event) ==
  IF event.method = ConsoleAPICalled THEN ResWrite(r, ConsoleFrame(RenderArgs(event.args)))
  ELSE IF event.method = ExecutionContextDestroyed THEN ResEnd(ResWrite(r, DoneFrame))
  ELSE r

\* the request that arrives: its code, and whether a Session is cached
Request(code) == [NoRes EXCEPT !.code = code, !.live = HasSession]

\* app.post('/execute', ...) up to `await executeJS(code)`
PostExecute(c, code) ==
  /\ proc = "running"
  /\ pc[c] = "idle"
  /\ c \in HttpCallers
  /\ route' = [route EXCEPT ![c] = "execute"]
  /\ IF MissingCode(code)
       THEN /\ res' = [res EXCEPT ![c] = NoCodeResponse(Request(code))]
            /\ pc' = [pc EXCEPT ![c] = "answered"]
            /\ UNCHANGED << activeClient, transportVars, closeCalls, op, client,
                            entry, sess, reply, ret, procVars, replReady,
                            firstSession >>
       ELSE /\ res' = [res EXCEPT ![c] = Request(code)]
            /\ ExecuteJSCall(c)
  /\ UNCHANGED << listeners, arrived, rendered >>
  /\ UNCHANGED uiVars

\* `await executeJS(code)` has returned: res.json({ result }); had it
\* raised, the catch branch would answer 500
RespondExecute(c) ==
  /\ proc = "running"
  /\ pc[c] = "done"
  /\ route[c] = "execute"
  /\ res' = [res EXCEPT ![c] =
               [(IF ret[c].t = "thrown" THEN ErrorResponse(@, ret[c].s)
                 ELSE ResultResponse(@, ret[c])) EXCEPT !.overlapped =
                  \E c2 \in Callers \ {c} : pc[c2] = "evaluating"]]
  /\ pc' = [pc EXCEPT ![c] = "answered"]
  /\ UNCHANGED << activeClient, transportVars, closeCalls, op, client, entry,
                  sess, reply, ret, procVars, replReady, firstSession,
                  route, listeners, arrived, rendered >>
  /\ UNCHANGED uiVars

\* app.post('/execute/stream', ...) up to `await executeJS(code)`.  With a
\* Session cached, activeClient.on(...) is called on the cached object.
PostStream(c, code) ==
  /\ proc = "running"
  /\ pc[c] = "idle"
  /\ c \in HttpCallers
  /\ route' = [route EXCEPT ![c] = "stream"]
  /\ IF MissingCode(code)
       THEN /\ res' = [res EXCEPT ![c] = NoCodeResponse(Request(code))]
            /\ pc' = [pc EXCEPT ![c] = "answered"]
            /\ UNCHANGED << activeClient, transportVars, closeCalls, op, client,
                            entry, sess, reply, ret, procVars, replReady,
                            firstSession, listeners >>
       ELSE IF HasSession /\ "on" \notin SessionProps
         THEN /\ res' = [res EXCEPT ![c] =
                           StreamCatch([Request(code) EXCEPT !.sse = TRUE],
                                       NotAFunction("on"))]
              /\ pc' = [pc EXCEPT ![c] = "answered"]
              /\ UNCHANGED << activeClient, transportVars, closeCalls, op, client,
                              entry, sess, reply, ret, procVars, replReady,
                              firstSession, listeners >>
         ELSE /\ res' = [res EXCEPT ![c] = [Request(code) EXCEPT !.sse = TRUE]]
              /\ listeners' = [listeners EXCEPT ![c] =
                                 IF HasSession
                                   THEN @ \cup {ConsoleAPICalled, ExecutionContextDestroyed}
                                   ELSE @]
              /\ ExecuteJSCall(c)
  /\ UNCHANGED << arrived, rendered >>
  /\ UNCHANGED uiVars

\* the streaming handler after `await executeJS(code)`: the result frame,
\* res.end(), then the removal of the handler
AfterResult(r) ==
  IF ~HasSession THEN r
  ELSE IF "removeListener" \in SessionProps THEN r
  ELSE StreamCatch(r, NotAFunction("removeListener"))

RespondStream(c) ==
  /\ proc = "running"
  /\ pc[c] = "done"
  /\ route[c] = "stream"
  /\ res' = [res EXCEPT ![c] =
               [(IF ret[c].t = "thrown" THEN StreamCatch(@, ret[c].s)
                 ELSE AfterResult(ResEnd(ResWrite(@, ResultFrame(ret[c])))))
                  EXCEPT !.overlapped =
                    \E c2 \in Callers \ {c} : pc[c2] = "evaluating"]]
  /\ listeners' = [listeners EXCEPT ![c] =
                     IF HasSession /\ "removeListener" \in SessionProps
                       THEN {} ELSE @]
  /\ pc' = [pc EXCEPT ![c] = "answered"]
  /\ UNCHANGED << activeClient, transportVars, closeCalls, op, client, entry,
                  sess, reply, ret, procVars, replReady, firstSession,
                  route, arrived, rendered >>
  /\ UNCHANGED uiVars

\* The target sends an event on the open transport t, on which Runtime has
\* been enabled.  The subscriber registered by connectToCDP writes a console
\* notification to the terminal; the handlers the streaming requests have
\* attached write their frames.
Notify(t, event) ==
  /\ proc = "running"
  /\ tstate[t] = "open"
  /\ enableCalls[t] > 0
  /\ arrived < MaxNotifications
  /\ arrived' = arrived + 1
  /\ rendered' = IF event.method = ConsoleAPICalled
                   THEN rendered + subscribers[t] ELSE rendered
  /\ res' = [c \in Callers |->
               IF event.method \in listeners[c] /\ activeClient = t
                 THEN MessageHandler(res[c], event) ELSE res[c]]
  /\ shown' = IF event.method = ConsoleAPICalled /\ subscribers[t] > 0
                THEN ConsoleWrite(event, repl) ELSE shown
  /\ repl' = IF event.method = ConsoleAPICalled /\ subscribers[t] > 0
               THEN AfterConsoleWrite(repl) ELSE repl
  /\ UNCHANGED << activeClient, transportVars, closeCalls, callVars, procVars,
                  replReady, firstSession, route, listeners, mon >>

\* The response has been sent; the slot is free for the next request.  The
\* handlers attached to the Session stay as they are.
HttpFinish(c) ==
  /\ proc = "running"
  /\ pc[c] = "answered"
  /\ pc' = [pc EXCEPT ![c] = "idle"]
  /\ op' = [op EXCEPT ![c] = "none"]
  /\ client' = [client EXCEPT ![c] = 0]
  /\ entry' = [entry EXCEPT ![c] = 0]
  /\ sess' = [sess EXCEPT ![c] = 0]
  /\ reply' = [reply EXCEPT ![c] = NoReply]
  /\ ret' = [ret EXCEPT ![c] = NoRet]
  /\ route' = [route EXCEPT ![c] = "none"]
  /\ res' = [res EXCEPT ![c] = NoRes]
  /\ UNCHANGED << activeClient, transportVars, closeCalls, procVars,
                  replReady, firstSession, listeners, arrived, rendered >>
  /\ UNCHANGED uiVars

(***************************************************************************)
(* The REPL: rl.on('line', async (line) => ...).  readline calls the        *)
(* handler for every line it reads; a handler call that awaits executeJS    *)
(* is suspended while the next line is handled.                             *)
(***************************************************************************)
\* LoadFails that never fails
LoadFailsNever(readable) == FALSE

\* fs.readFileSync(filePath, 'utf8') throws
LoadFails(readable) == ~readable

\* ShouldPrint without the console.log test
ShouldPrintDefined(l, v) == v # Undefined

\* .load:  if (result !== undefined)
\* a line: if (result !== undefined && !line.trim().startsWith('console.log'))
ShouldPrint(l, v) ==
  IF l.kind = "load" THEN v # Undefined
  ELSE v # Undefined /\ ~StartsWith(Trim(l.text), ConsoleLogPrefix)

\* the line handler is called with `line`, up to its first await; c is the
\* caller slot its executeJS call takes, `readable` says whether the file a
\* .load names can be read.  ('.exit' is DotExit.)
ReplLine(c, line, readable) ==
  /\ proc = "running"
  /\ replReady
  /\ Trim(line) # ExitLine
  /\ IF Trim(line) = << >>
       THEN /\ repl' = Skipped(repl)
            /\ UNCHANGED << activeClient, transportVars, closeCalls, callVars,
                            procVars, replReady, firstSession, route >>
       ELSE IF Trim(line) \in {ClearLine, HelpLine}
         THEN /\ repl' = Prompted(Dispatched(repl, Trim(line)))
              /\ UNCHANGED << activeClient, transportVars, closeCalls, callVars,
                              procVars, replReady, firstSession, route >>
       ELSE IF StartsWith(Trim(line), LoadPrefix) /\ LoadFails(readable)
         THEN /\ repl' = Prompted([Dispatched(repl, Trim(line))
                                     EXCEPT !.fileErrors = @ + 1])
              /\ UNCHANGED << activeClient, transportVars, closeCalls, callVars,
                              procVars, replReady, firstSession, route >>
         ELSE /\ route[c] = "none"
              /\ route' = [route EXCEPT ![c] = "repl"]
              /\ repl' = [Dispatched(repl, Trim(line)) EXCEPT !.line[c] =
                            [ kind |-> IF StartsWith(Trim(line), LoadPrefix)
                                         THEN "load" ELSE "js",
                              text |-> Trim(line),
                              seq |-> repl.reads + 1 ]]
              /\ ExecuteJSCall(c)
  /\ UNCHANGED << res, listeners, arrived, rendered, shown, mon >>

\* `await executeJS(...)` has returned in the line handler: the result is
\* printed or not (had executeJS raised, the catch branch would print the
\* error), rl.prompt(); the handler call is over.
ReplLineSettled(c) ==
  /\ proc = "running"
  /\ pc[c] = "done"
  /\ route[c] = "repl"
  /\ repl' = Prompted([repl EXCEPT
                !.log = Append(@, [ seq |-> repl.line[c].seq,
                                    kind |-> repl.line[c].kind,
                                    text |-> repl.line[c].text,
                                    ret |-> ret[c],
                                    caught |-> ret[c].t = "thrown",
                                    printed |-> ret[c].t # "thrown"
                                                  /\ ShouldPrint(repl.line[c], ret[c]) ]),
                !.line[c] = NoLine])
  /\ pc' = [pc EXCEPT ![c] = "idle"]
  /\ op' = [op EXCEPT ![c] = "none"]
  /\ client' = [client EXCEPT ![c] = 0]
  /\ entry' = [entry EXCEPT ![c] = 0]
  /\ sess' = [sess EXCEPT ![c] = 0]
  /\ reply' = [reply EXCEPT ![c] = NoReply]
  /\ ret' = [ret EXCEPT ![c] = NoRet]
  /\ route' = [route EXCEPT ![c] = "none"]
  /\ UNCHANGED << activeClient, transportVars, closeCalls, procVars,
                  replReady, firstSession, res, listeners, arrived, rendered,
                  shown, mon >>

(***************************************************************************)
(* Typing and history recall: rl.input.on('keypress', ...).  history[i] of  *)
(* the code is history[i + 1] here.                                         *)
(***************************************************************************)
\* the other variables of a step of the readline interface alone
notRepl == << activeClient, transportVars, closeCalls, callVars, procVars,
             replReady, firstSession, httpVars, shown, mon >>

\* a key that inserts `piece` at the cursor
TypeKey(piece) ==
  /\ proc = "running"
  /\ replReady
  /\ Len(repl.input) < MaxInput
  /\ repl' = [repl EXCEPT
                !.input = SubSeq(@, 1, repl.cursor) \o << piece >>
                            \o SubSeq(@, repl.cursor + 1, Len(@)),
                !.cursor = @ + 1,
                !.via = "typed"]
  /\ UNCHANGED notRepl

\* the left arrow
CursorLeft ==
  /\ proc = "running"
  /\ replReady
  /\ repl.cursor > 0
  /\ repl' = [repl EXCEPT !.cursor = @ - 1]
  /\ UNCHANGED notRepl

\* key.name === 'up'
KeyUp ==
  /\ proc = "running"
  /\ replReady
  /\ repl' = IF repl.historyIndex > 0
               THEN [repl EXCEPT !.historyIndex = @ - 1,
                                 !.input = repl.history[repl.historyIndex],
                                 !.cursor = Len(repl.history[repl.historyIndex]),
                                 !.via = "up"]
               ELSE repl
  /\ UNCHANGED notRepl

\* KeyDown leaving rl.line as it is when it moves past the newest entry
KeyDownKeepsLine ==
  /\ proc = "running"
  /\ replReady
  /\ repl' = IF repl.historyIndex < Len(repl.history) - 1
               THEN [repl EXCEPT !.historyIndex = @ + 1,
                                 !.input = repl.history[repl.historyIndex + 2],
                                 !.cursor = Len(repl.history[repl.historyIndex + 2]),
                                 !.via = "down"]
               ELSE IF repl.historyIndex = Len(repl.history) - 1
                 THEN [repl EXCEPT !.historyIndex = Len(repl.history),
                                   !.via = "down"]
                 ELSE repl
  /\ UNCHANGED notRepl

\* key.name === 'down'
KeyDown ==
  /\ proc = "running"
  /\ replReady
  /\ repl' = IF repl.historyIndex < Len(repl.history) - 1
               THEN [repl EXCEPT !.historyIndex = @ + 1,
                                 !.input = repl.history[repl.historyIndex + 2],
                                 !.cursor = Len(repl.history[repl.historyIndex + 2]),
                                 !.via = "down"]
               ELSE IF repl.historyIndex = Len(repl.history) - 1
                 THEN [repl EXCEPT !.historyIndex = Len(repl.history),
                                   !.input = << >>,
                                   !.cursor = 0,
                                   !.via = "down"]
                 ELSE repl
  /\ UNCHANGED notRepl

(***************************************************************************)
(* Startup with --script: app.listen's callback.                            *)
(***************************************************************************)
\* ListenScript calling startREPL() at once, without executeJS(scriptContent)
ListenScriptNoWait(readable) ==
  /\ proc = "running"
  /\ repl.startup = "listen"
  /\ pc[ReplCaller] = "idle"
  /\ StartREPLFrom([repl EXCEPT !.scriptRuns = IF readable THEN @ + 1 ELSE @,
                                !.scriptShown = IF readable THEN @ ELSE "readError"])
  /\ UNCHANGED << reply, ret, route >>

\* if (argv.script): fs.readFileSync; on success executeJS(scriptContent) is
\* called, on failure the error is printed and startREPL() is called
ListenScript(readable) ==
  /\ proc = "running"
  /\ repl.startup = "listen"
  /\ pc[ReplCaller] = "idle"
  /\ IF readable
       THEN /\ repl' = [repl EXCEPT !.startup = "script", !.scriptRuns = @ + 1]
            /\ route' = [route EXCEPT ![ReplCaller] = "script"]
            /\ ExecuteJSFrom(ReplCaller)
            /\ UNCHANGED << res, listeners, arrived, rendered, shown, mon >>
       ELSE /\ StartREPLFrom([repl EXCEPT !.scriptShown = "readError"])
            /\ UNCHANGED << reply, ret, route >>

\* executeJS(scriptContent) has settled: .then prints the result unless it
\* is undefined and calls startREPL(); .catch would print 'Script execution
\* failed' and call startREPL()
ScriptSettled ==
  /\ proc = "running"
  /\ pc[ReplCaller] = "done"
  /\ route[ReplCaller] = "script"
  /\ StartREPLFrom([repl EXCEPT !.scriptShown =
                      IF ret[ReplCaller].t = "thrown" THEN "failed"
                      ELSE IF ret[ReplCaller] # Undefined THEN "result"
                      ELSE "nothing",
                                  !.scriptRet = ret[ReplCaller],
                                  !.scriptClient = client[ReplCaller]])
  /\ reply' = [reply EXCEPT ![ReplCaller] = NoReply]
  /\ ret' = [ret EXCEPT ![ReplCaller] = NoRet]
  /\ route' = [route EXCEPT ![ReplCaller] = "none"]

(***************************************************************************)
(* The target's console, seen from the target: an event is sent to every    *)
(* client that is connected and has enabled Runtime.                        *)
(***************************************************************************)
\* the sum of f over the set S
RECURSIVE SumOver(_, _)
SumOver(f, S) ==
  IF S = {} THEN 0
  ELSE LET x == CHOOSE y \in S : TRUE IN f[x] + SumOver(f, S \ {x})

\* the transports the target sends its events on
Listening == {t \in Transports : tstate[t] = "open" /\ enableCalls[t] > 0}

\* The target emits a console event: each subscriber registered by
\* connectToCDP on a listening transport writes it to the terminal.
TargetEmit(event) ==
  /\ proc = "running"
  /\ Listening # {}
  /\ arrived < MaxNotifications
  /\ arrived' = arrived + 1
  /\ rendered' = rendered + SumOver(subscribers, Listening)
  /\ shown' = IF SumOver(subscribers, Listening) > 0
                THEN ConsoleWrite(event, repl) ELSE shown
  /\ repl' = IF SumOver(subscribers, Listening) > 0
               THEN AfterConsoleWrite(repl) ELSE repl
  /\ UNCHANGED << activeClient, transportVars, closeCalls, callVars, procVars,
                  replReady, firstSession, route, res, listeners, mon >>

(***************************************************************************)
(* monitorApiCall(urlPattern, method, waitForCall, callback, timeout), in   *)
(* the page, and the calls of window.fetch the page makes meanwhile.        *)
(***************************************************************************)
\* logMessage(message)
MonLog(m, msg) ==
  [m EXCEPT !.log = Append(@, msg),
            !.given = IF m.callback THEN Append(@, msg) ELSE @]

\* cleanupMonitoring restoring window.fetch only
MonCleanupFetchOnly(m) == [m EXCEPT !.hooked = FALSE]

\* cleanupMonitoring()
MonCleanup(m) == [m EXCEPT !.hooked = FALSE, !.timer = FALSE]

\* resolve(value) / reject(value): a promise settles once
MonSettle(m, state, value) ==
  IF m.state = "active"
    THEN [m EXCEPT !.state = state, !.value = value, !.logAtSettle = m.log]
    ELSE m

\* the values the promise is settled with
\* resolve({ success: true, ..., messageLog })
CompleteValue == [kind |-> "complete", hasLog |-> TRUE, error |-> ABSENT]
\* resolve({ success: false, reason, messageLog })
NoCallValue == [kind |-> "noCall", hasLog |-> TRUE, error |-> ABSENT]
\* reject({ error: error.message, messageLog })
FailureValue == [kind |-> "failure", hasLog |-> TRUE, error |-> "network error"]
\* reject(new Error(`Timeout after ...`))
TimeoutValue == [kind |-> "Error", hasLog |-> FALSE, error |-> "Timeout after"]

\* the messages
Msg(type, body) == [type |-> type, body |-> body]

\* response.clone() is read, `return response`: the page receives the
\* response originalFetch gave, its body not read
ReturnedResponse(response) == response

\* the next call of fetch takes the lowest free place
NextCall(k) ==
  /\ mon.call[k].phase = "none"
  /\ \A j \in PageCalls : j < k => mon.call[j].phase # "none"

\* monitorApiCall(...) is called: the timer is set when timeout > 0,
\* window.fetch is replaced; without waitForCall the promise is resolved at
\* once.
MonitorStart(waitForCall, callback, timed) ==
  /\ mon.state = "off"
  /\ mon' = LET m == [NoMon EXCEPT !.state = "active", !.callback = callback,
                                   !.timed = timed, !.timer = timed,
                                   !.hooked = TRUE]
            IN IF ~waitForCall THEN MonSettle(MonCleanup(m), "resolved", NoCallValue)
               ELSE m
  /\ UNCHANGED nodeVars

\* the page calls fetch with a matching url and method: request-start and,
\* with a body, request-body are logged; originalFetch is called
MatchingFetch(k, hasBody) ==
  /\ mon.hooked
  /\ NextCall(k)
  /\ mon' = [(IF hasBody
                THEN MonLog(MonLog(mon, Msg("request-start", "")),
                            Msg("request-body", "body"))
                ELSE MonLog(mon, Msg("request-start", "")))
               EXCEPT !.call[k] = [NoCall EXCEPT !.phase = "awaiting",
                                                 !.match = TRUE,
                                                 !.hasBody = hasBody]]
  /\ UNCHANGED nodeVars

\* the page calls fetch with another url or method: originalFetch is called
OtherFetch(k) ==
  /\ mon.hooked
  /\ NextCall(k)
  /\ mon' = [mon EXCEPT !.call[k] = [NoCall EXCEPT !.phase = "awaiting"]]
  /\ UNCHANGED nodeVars

\* originalFetch gives a response: for a match the clone is read by
\* processStream; the response is returned to the page
FetchResolves(k) ==
  /\ mon.call[k].phase = "awaiting"
  /\ mon' = [mon EXCEPT !.call[k].orig = OriginalResponse,
                        !.call[k].app = ReturnedResponse(OriginalResponse),
                        !.call[k].phase = IF mon.call[k].match
                                            THEN "streaming" ELSE "finished"]
  /\ UNCHANGED nodeVars

\* originalFetch raises: for a match error is logged, cleanup, reject; the
\* error is thrown again to the page
FetchRejects(k) ==
  /\ mon.call[k].phase = "awaiting"
  /\ mon' = [(IF mon.call[k].match
                THEN MonSettle(MonCleanup(MonLog(mon, Msg("error", "network error"))),
                               "rejected", FailureValue)
                ELSE mon)
               EXCEPT !.call[k].orig = OriginalError,
                      !.call[k].app = OriginalError,
                      !.call[k].phase = "finished"]
  /\ UNCHANGED nodeVars

\* the text of the n-th chunk of a response
ChunkText(n) == IF n = 1 THEN "chunk 1" ELSE "chunk n"

\* reader.read() gives the next chunk of the response: response-chunk is
\* logged
ResponseChunk(k) ==
  /\ mon.call[k].phase = "streaming"
  /\ mon.chunks < MaxChunks
  /\ mon' = [MonLog(mon, Msg("response-chunk",
                              ChunkText(Len(mon.call[k].stream) + 1)))
               EXCEPT !.call[k].stream =
                        Append(@, ChunkText(Len(mon.call[k].stream) + 1)),
                      !.chunks = @ + 1]
  /\ UNCHANGED nodeVars

\* the stream is done: response-complete is logged, cleanup, resolve
ResponseComplete(k) ==
  /\ mon.call[k].phase = "streaming"
  /\ mon' = [MonSettle(MonCleanup(MonLog(mon, Msg("response-complete", ""))),
                       "resolved", CompleteValue)
               EXCEPT !.call[k].phase = "finished",
                      !.by = IF mon.state = "active" THEN k ELSE @]
  /\ UNCHANGED nodeVars

\* reader.read() raises: error is logged, cleanup, reject
ResponseError(k) ==
  /\ mon.call[k].phase = "streaming"
  /\ mon' = [MonSettle(MonCleanup(MonLog(mon, Msg("error", "network error"))),
                       "rejected", FailureValue)
               EXCEPT !.call[k].phase = "finished"]
  /\ UNCHANGED nodeVars

\* the timer fires: cleanup, reject(new Error(...))
MonitorTimeout ==
  /\ mon.timer
  /\ mon' = MonSettle(MonCleanup(mon), "rejected", TimeoutValue)
  /\ UNCHANGED nodeVars

Next ==
  \/ StartREPL
  \/ \E c \in Callers : ExecuteJS(c)
  \/ \E c \in Callers, ok \in BOOLEAN, msg \in TransportErrors : ConnectReply(c, ok, msg)
  \/ \E c \in Callers, ok \in BOOLEAN, msg \in TransportErrors : EnableReply(c, ok, msg)
  \/ \E c \in Callers, ok \in BOOLEAN, msg \in TransportErrors : BootstrapReply(c, ok, msg)
  \/ \E c \in Callers, d \in MainDescriptors : EvalReply(c, d)
  \/ \E c \in Callers, msg \in TransportErrors : EvalError(c, msg)
  \/ \E c \in Callers : Finish(c)
  \/ ProcessSIGINT
  \/ RlSIGINT
  \/ DotExit
  \/ UncaughtExit

Spec == Init /\ [][Next]_vars

(***************************************************************************)
(* executeJS called by one HTTP request after the other, with the replies   *)
(* of Runtime.evaluate drawn from all descriptors.                          *)
(***************************************************************************)
HttpCaller == 1

NextReduce ==
  \/ ExecuteJS(HttpCaller)
  \/ \E ok \in BOOLEAN, msg \in TransportErrors : ConnectReply(HttpCaller, ok, msg)
  \/ \E ok \in BOOLEAN, msg \in TransportErrors : EnableReply(HttpCaller, ok, msg)
  \/ \E ok \in BOOLEAN, msg \in TransportErrors : BootstrapReply(HttpCaller, ok, msg)
  \/ \E d \in Descriptors : EvalReply(HttpCaller, d)
  \/ \E msg \in TransportErrors : EvalError(HttpCaller, msg)
  \/ Finish(HttpCaller)

SpecReduce == Init /\ [][NextReduce]_vars

(***************************************************************************)
(* The HTTP surface alone: requests on both routes call executeJS side by   *)
(* side, the target sends notifications.                                    *)
(***************************************************************************)
\* the replies drawn here: those of MainDescriptors, a value that is an
\* object with an `error` property, and undefined
HttpDescriptors ==
  MainDescriptors \cup
    { Desc(FALSE, ABSENT, Obj("{error:'x'}", "x", ABSENT), "object", "Object"),
      Desc(FALSE, ABSENT, Undefined, "undefined", ABSENT) }

\* The failures drawn here: CDP() rejects, Runtime.evaluate rejects.
HttpErrors == {"WebSocket is not open"}

NextHttp ==
  \/ \E c \in HttpCallers, code \in Codes : PostExecute(c, code)
  \/ \E c \in HttpCallers, code \in Codes : PostStream(c, code)
  \/ \E c \in HttpCallers, ok \in BOOLEAN, msg \in HttpErrors : ConnectReply(c, ok, msg)
  \/ \E c \in HttpCallers, ok \in {TRUE}, msg \in HttpErrors : EnableReply(c, ok, msg)
  \/ \E c \in HttpCallers, ok \in {TRUE}, msg \in HttpErrors : BootstrapReply(c, ok, msg)
  \/ \E c \in HttpCallers, d \in HttpDescriptors : EvalReply(c, d)
  \/ \E c \in HttpCallers, msg \in HttpErrors : EvalError(c, msg)
  \/ \E c \in HttpCallers : RespondExecute(c)
  \/ \E c \in HttpCallers : RespondStream(c)
  \/ \E t \in Transports, event \in Events : Notify(t, event)
  \/ \E c \in HttpCallers : HttpFinish(c)

SpecHttp == Init /\ [][NextHttp]_vars

(***************************************************************************)
(* The REPL beside POST /execute: the evaluations of the two surfaces       *)
(* overlap while the target sends notifications.                            *)
(***************************************************************************)
\* The inputs drawn here: a script, a reply carrying a value, a console
\* notification; the acquisitions succeed.
BusyCodes == {"document.title"}
BusyDescriptors == {Desc(FALSE, ABSENT, Num("42"), "number", ABSENT)}
BusyEvents == {[method |-> ConsoleAPICalled, args |-> << Arg(Str("a"), ABSENT) >>]}

NextBusy ==
  \/ StartREPL
  \/ ExecuteJS(ReplCaller)
  \/ Finish(ReplCaller)
  \/ \E c \in HttpCallers, code \in BusyCodes : PostExecute(c, code)
  \/ \E c \in Callers, msg \in HttpErrors : ConnectReply(c, TRUE, msg)
  \/ \E c \in Callers, msg \in HttpErrors : EnableReply(c, TRUE, msg)
  \/ \E c \in Callers, msg \in HttpErrors : BootstrapReply(c, TRUE, msg)
  \/ \E c \in Callers, d \in BusyDescriptors : EvalReply(c, d)
  \/ \E c \in HttpCallers : RespondExecute(c)
  \/ \E t \in Transports, event \in BusyEvents : Notify(t, event)
  \/ \E c \in HttpCallers : HttpFinish(c)

SpecBusy == Init /\ [][NextBusy]_vars

(***************************************************************************)
(* The REPL: lines are read while earlier ones are being evaluated.         *)
(***************************************************************************)
\* the lines typed: blanks, an expression (with and without blanks around
\* it), a console.log call with a value, a .load command
ReplLines ==
  { << WS >>, << "1+1" >>, << WS, "1+1", WS >>,
    << WS, "console.log", "('a'), 5" >>, << ".load", WS, WS, "a.js" >> }

\* the replies drawn here: a value and undefined
ReplDescriptors ==
  { Desc(FALSE, ABSENT, Num("42"), "number", ABSENT),
    Desc(FALSE, ABSENT, Undefined, "undefined", ABSENT) }

\* readline reads a line, for as long as the run lasts
ReadLine(c, line, readable) ==
  /\ repl.reads < MaxLines
  /\ ReplLine(c, line, readable)

NextRepl ==
  \/ StartREPL
  \/ \E c \in Callers, msg \in HttpErrors : ConnectReply(c, TRUE, msg)
  \/ \E c \in Callers, msg \in HttpErrors : EnableReply(c, TRUE, msg)
  \/ \E c \in Callers, msg \in HttpErrors : BootstrapReply(c, TRUE, msg)
  \/ Finish(ReplCaller)
  \/ \E c \in Callers, line \in ReplLines, readable \in BOOLEAN :
       ReadLine(c, line, readable)
  \/ \E c \in Callers, d \in ReplDescriptors : EvalReply(c, d)
  \/ \E c \in Callers : ReplLineSettled(c)

SpecRepl == Init /\ [][NextRepl]_vars

(***************************************************************************)
(* The REPL fed with commands that evaluate nothing, for as long as it      *)
(* takes to fill `history`.                                                 *)
(***************************************************************************)
HistoryLines == { ClearLine, HelpLine }

\* readline reads a command, for as long as the run lasts
ReadCommand(line) ==
  /\ repl.reads < MaxHistoryLines
  /\ ReplLine(ReplCaller, line, TRUE)

NextHistory ==
  \/ StartREPL
  \/ \E msg \in HttpErrors : ConnectReply(ReplCaller, TRUE, msg)
  \/ \E msg \in HttpErrors : EnableReply(ReplCaller, TRUE, msg)
  \/ \E msg \in HttpErrors : BootstrapReply(ReplCaller, TRUE, msg)
  \/ \E line \in HistoryLines : ReadCommand(line)

SpecHistory == Init /\ [][NextHistory]_vars

(***************************************************************************)
(* Startup: app.listen's callback with and without --script, beside         *)
(* POST /execute requests.                                                  *)
(***************************************************************************)
NextStartup ==
  \/ StartREPL
  \/ \E readable \in BOOLEAN : ListenScript(readable)
  \/ ScriptSettled
  \/ \E c \in HttpCallers : ExecuteJS(c)
  \/ \E c \in Callers, ok \in BOOLEAN, msg \in HttpErrors : ConnectReply(c, ok, msg)
  \/ \E c \in Callers, ok \in BOOLEAN, msg \in HttpErrors : EnableReply(c, ok, msg)
  \/ \E c \in Callers, ok \in BOOLEAN, msg \in HttpErrors : BootstrapReply(c, ok, msg)
  \/ \E c \in Callers, d \in ReplDescriptors : EvalReply(c, d)
  \/ \E c \in Callers, msg \in HttpErrors : EvalError(c, msg)
  \/ \E c \in HttpCallers : Finish(c)

SpecStartup == Init /\ [][NextStartup]_vars

(***************************************************************************)
(* The failures of executeJS under POST /execute.                           *)
(***************************************************************************)
\* the replies drawn here: a value, and a reply without a result object
FailureDescriptors ==
  { Desc(FALSE, ABSENT, Num("42"), "number", ABSENT),
    [Desc(FALSE, ABSENT, Undefined, "undefined", ABSENT) EXCEPT !.hasResult = FALSE] }

NextFailures ==
  \/ \E c \in HttpCallers, code \in Codes : PostExecute(c, code)
  \/ \E c \in HttpCallers, ok \in BOOLEAN, msg \in TransportErrors : ConnectReply(c, ok, msg)
  \/ \E c \in HttpCallers, ok \in BOOLEAN, msg \in TransportErrors : EnableReply(c, ok, msg)
  \/ \E c \in HttpCallers, ok \in BOOLEAN, msg \in TransportErrors : BootstrapReply(c, ok, msg)
  \/ \E c \in HttpCallers, d \in FailureDescriptors : EvalReply(c, d)
  \/ \E c \in HttpCallers, msg \in TransportErrors : EvalError(c, msg)
  \/ \E c \in HttpCallers : RespondExecute(c)
  \/ \E c \in HttpCallers : HttpFinish(c)

SpecFailures == Init /\ [][NextFailures]_vars

(***************************************************************************)
(* The REPL at the keyboard: command lines typed or recalled, and Enter.    *)
(***************************************************************************)
\* a command typed on an empty input line
TypeCommand(line) ==
  /\ repl.input = << >>
  /\ TypeKey(line[1])

\* Enter on a command line or an empty line: readline hands rl.line to the
\* line handler
EnterCommand ==
  /\ repl.reads < MaxLines
  /\ Trim(repl.input) \in HistoryLines \cup { << >> }
  /\ ReplLine(ReplCaller, repl.input, TRUE)

NextRecall ==
  \/ StartREPL
  \/ \E msg \in HttpErrors : ConnectReply(ReplCaller, TRUE, msg)
  \/ \E msg \in HttpErrors : EnableReply(ReplCaller, TRUE, msg)
  \/ \E msg \in HttpErrors : BootstrapReply(ReplCaller, TRUE, msg)
  \/ Finish(ReplCaller)
  \/ \E line \in HistoryLines : TypeCommand(line)
  \/ EnterCommand
  \/ KeyUp
  \/ KeyDown

SpecRecall == Init /\ [][NextRecall]_vars

(***************************************************************************)
(* Console notifications while the user types.                              *)
(***************************************************************************)
\* the keys that insert text
Pieces == { "a", "b", WS }

NextTyping ==
  \/ StartREPL
  \/ \E msg \in HttpErrors : ConnectReply(ReplCaller, TRUE, msg)
  \/ \E msg \in HttpErrors : EnableReply(ReplCaller, TRUE, msg)
  \/ \E msg \in HttpErrors : BootstrapReply(ReplCaller, TRUE, msg)
  \/ Finish(ReplCaller)
  \/ \E piece \in Pieces : TypeKey(piece)
  \/ CursorLeft
  \/ \E t \in Transports, event \in BusyEvents : Notify(t, event)

SpecTyping == Init /\ [][NextTyping]_vars

(***************************************************************************)
(* The console of the target beside the callers of connectToCDP.            *)
(***************************************************************************)
NextConsole ==
  \/ StartREPL
  \/ \E c \in Callers : ExecuteJS(c)
  \/ \E c \in Callers, msg \in HttpErrors : ConnectReply(c, TRUE, msg)
  \/ \E c \in Callers, msg \in HttpErrors : EnableReply(c, TRUE, msg)
  \/ \E c \in Callers, msg \in HttpErrors : BootstrapReply(c, TRUE, msg)
  \/ \E c \in Callers, d \in BusyDescriptors : EvalReply(c, d)
  \/ \E c \in Callers : Finish(c)
  \/ \E event \in BusyEvents : TargetEmit(event)

SpecConsole == Init /\ [][NextConsole]_vars

(***************************************************************************)
(* The console subscriber on notifications with all kinds of arguments.     *)
(***************************************************************************)
\* the arguments as the protocol describes them: a number has its value and
\* its text as description, a string and a boolean have a value only, an
\* object has a description only, undefined has neither
RenderArgSet ==
  { Arg(Num("0"), "0"), Arg(Num("42"), "42"),
    Arg(Str(""), ABSENT), Arg(Str("a"), ABSENT),
    Arg(Bool("false"), ABSENT), Arg(Bool("true"), ABSENT),
    Arg(Undefined, "HTMLDivElement"), Arg(Undefined, ABSENT) }
RenderEvents ==
  { [method |-> ConsoleAPICalled, args |-> << a >>] : a \in RenderArgSet }
    \cup { [method |-> ConsoleAPICalled, args |-> << a, b >>] :
             a \in RenderArgSet, b \in RenderArgSet }

NextRender ==
  \/ StartREPL
  \/ \E msg \in HttpErrors : ConnectReply(ReplCaller, TRUE, msg)
  \/ \E msg \in HttpErrors : EnableReply(ReplCaller, TRUE, msg)
  \/ \E msg \in HttpErrors : BootstrapReply(ReplCaller, TRUE, msg)
  \/ \E t \in Transports, event \in RenderEvents : Notify(t, event)

SpecRender == Init /\ [][NextRender]_vars

(***************************************************************************)
(* monitorApiCall in the page.                                              *)
(***************************************************************************)
NextMonitor ==
  \/ \E waitForCall \in BOOLEAN, callback \in BOOLEAN, timed \in BOOLEAN :
       MonitorStart(waitForCall, callback, timed)
  \/ \E k \in PageCalls, hasBody \in BOOLEAN : MatchingFetch(k, hasBody)
  \/ \E k \in PageCalls : OtherFetch(k)
  \/ \E k \in PageCalls : FetchResolves(k)
  \/ \E k \in PageCalls : FetchRejects(k)
  \/ \E k \in PageCalls : ResponseChunk(k)
  \/ \E k \in PageCalls : ResponseComplete(k)
  \/ \E k \in PageCalls : ResponseError(k)
  \/ MonitorTimeout

SpecMonitor == Init /\ [][NextMonitor]_vars

(***************************************************************************)
(* Properties.                                                              *)
(***************************************************************************)
\* the steps of connectToCDP past its guard
Acquiring == {"connecting", "enabling", "bootstrapping"}
AcquireSteps == {"connect", "enable", "bootstrap"}

\* C1: connectToCDP calls that overlap while no Session is cached open one
\* transport connection between them and all obtain the same Session: two
\* callers that are both past CDP() hold the same transport, and two callers
\* that both found no Session cached were returned the same Session.
C1_ConcurrentAcquireOneTransport ==
  \A c1, c2 \in Callers :
    /\ (pc[c1] \in {"enabling", "bootstrapping"} /\ pc[c2] \in {"enabling", "bootstrapping"})
         => client[c1] = client[c2]
    /\ (op[c1] # "none" /\ op[c2] # "none" /\ entry[c1] = 0 /\ entry[c2] = 0
          /\ sess[c1] # 0 /\ sess[c2] # 0)
         => sess[c1] = sess[c2]

\* C2: when the process has exited with a Session open, close() was called
\* on its transport exactly once.
C2_CloseExactlyOnce ==
  (proc = "exited" /\ activeClient # 0) => closeCalls[activeClient] = 1

\* C3: a connectToCDP call made once a Session has been established returns
\* that Session (the one first established) and starts no connection of its
\* own.
C3_LaterCallsSameSession ==
  \A c \in Callers :
    (op[c] # "none" /\ entry[c] # 0) => (sess[c] = firstSession /\ client[c] = 0)

\* C4: an acquisition that failed at connect, enable or bootstrap did not
\* cache its Session (the cached Session is always one whose bootstrap
\* settled), returned no Session, and handed its error to the caller
\* (executeJS returns it, startREPL exits with status 1); and a call that
\* finds no Session cached issues a connection attempt of its own.
C4_FailedAcquireNotCached ==
  /\ activeClient # 0 => bootstrapDone[activeClient] = 1
  /\ \A c \in Callers :
       /\ (reply[c].kind = "error" /\ reply[c].at \in AcquireSteps)
            => /\ activeClient # client[c]
               /\ sess[c] = 0
               /\ IF op[c] = "executeJS"
                    THEN ret[c] = CatchResult(reply[c].msg)
                    ELSE proc = "exited" /\ exitCode = 1
       /\ (op[c] # "none" /\ entry[c] = 0)
            => (client[c] # 0 /\ \A c2 \in Callers \ {c} : client[c2] # client[c])

\* C4 witness: the first attempt failed after its transport was opened, no
\* Session was cached by it, and a later attempt has cached one.
C4_Witness ==
  /\ tstate[1] = "open" /\ bootstrapDone[1] = 0
  /\ \A c \in Callers : client[c] # 1
  /\ activeClient = 2

\* C5: the helper script is evaluated in the target once: at most one
\* bootstrap evaluation ever settles, whatever the callers do.
C5_BootstrapOnce ==
  /\ \A t \in Transports : bootstrapDone[t] <= 1
  /\ Cardinality({t \in Transports : bootstrapDone[t] > 0}) <= 1

\* C6: a step in which an executeJS call settles (with a value, an
\* exception, or a transport error) leaves the cached Session and every
\* transport as they were; close() is called only by a step that ends the
\* process.
C6_EvaluationKeepsSession ==
  [][ /\ \A c \in Callers :
           (op[c] = "executeJS" /\ pc[c] # "done" /\ pc'[c] = "done")
             => /\ activeClient' = activeClient
                /\ closeCalls' = closeCalls
                /\ \A t \in Transports : tstate[t] = "open" => tstate'[t] = "open"
      /\ closeCalls' # closeCalls => (proc = "running" /\ proc' = "exited")
    ]_vars

\* C6 witness: an evaluation ended with a transport error and its Session is
\* still cached and open.
C6_Witness ==
  \E c \in Callers :
    /\ reply[c].kind = "error" /\ reply[c].at = "evaluate"
    /\ activeClient = sess[c] /\ tstate[sess[c]] = "open"
    /\ closeCalls[sess[c]] = 0

\* C7: a reply with a defined value and no exception details makes executeJS
\* return that value, whatever its type tag and className.
C7_ValueReturned ==
  \A c \in Callers :
    (reply[c].kind = "desc" /\ ~reply[c].d.exc /\ reply[c].d.hasResult
       /\ reply[c].d.value # Undefined)
      => ret[c] = reply[c].d.value

\* C7 witness: the falsy value 0 of a reply typed "object" with a className
\* was returned as the value.
C7_Witness ==
  \E c \in Callers :
    /\ reply[c].kind = "desc" /\ ~reply[c].d.exc /\ reply[c].d.hasResult
    /\ reply[c].d.value = Num("0")
    /\ reply[c].d.type = "object" /\ reply[c].d.className = "HTMLDivElement"
    /\ ret[c] = Num("0")

\* C8 as stated: exception details make executeJS return { error: text,
\* stack: description }, with the fallback only when the description is
\* absent.
C8_StackIsDescriptionUnlessAbsent ==
  \A c \in Callers :
    (reply[c].kind = "desc" /\ reply[c].d.exc)
      => ret[c] = Obj("", reply[c].d.text,
                      IF reply[c].d.excDescription # ABSENT
                        THEN reply[c].d.excDescription ELSE NoStack)

\* C8 amended: exception details make executeJS return { error: text,
\* stack }, where stack is the description when it is present and not the
\* empty string and "No stack available" otherwise; this holds whatever
\* else the reply carries.
C8_ExceptionWins ==
  \A c \in Callers :
    (reply[c].kind = "desc" /\ reply[c].d.exc)
      => ret[c] = Obj("", reply[c].d.text,
                      IF reply[c].d.excDescription \notin {ABSENT, ""}
                        THEN reply[c].d.excDescription ELSE NoStack)

\* C8 witness: a reply with exception details and a value was reduced to
\* the failure with the fallback stack.
C8_Witness ==
  \E c \in Callers :
    /\ reply[c].kind = "desc" /\ reply[c].d.exc
    /\ reply[c].d.hasResult /\ reply[c].d.value = Num("42")
    /\ reply[c].d.excDescription = ABSENT
    /\ ret[c] = Obj("", "Uncaught", NoStack)

\* C9: a transport failure in connectToCDP or in Runtime.evaluate, or a
\* reply without a result object, makes executeJS return the error message
\* together with the stack "No stack available".
C9_TransportFailureHasFallbackStack ==
  \A c \in Callers :
    /\ (op[c] = "executeJS" /\ reply[c].kind = "error")
         => (ret[c].error = reply[c].msg /\ ret[c].stack = NoStack)
    /\ (reply[c].kind = "desc" /\ ~reply[c].d.exc /\ ~reply[c].d.hasResult)
         => (TruthyStr(ret[c].error) /\ ret[c].stack = NoStack)

\* C10 as stated: a reply typed "object" that carries a className and no
\* value is reduced to the string "[" + className + "]".
C10_ObjectHandleForAnyClassName ==
  \A c \in Callers :
    (reply[c].kind = "desc" /\ ~reply[c].d.exc /\ reply[c].d.hasResult
       /\ reply[c].d.value = Undefined /\ reply[c].d.type = "object"
       /\ reply[c].d.className # ABSENT)
      => ret[c] = Str("[" \o reply[c].d.className \o "]")

\* C10 amended: a reply typed "object" that carries a non-empty className
\* and no value is reduced to the string "[" + className + "]".
C10_ObjectHandle ==
  \A c \in Callers :
    (reply[c].kind = "desc" /\ ~reply[c].d.exc /\ reply[c].d.hasResult
       /\ reply[c].d.value = Undefined /\ reply[c].d.type = "object"
       /\ reply[c].d.className \notin {ABSENT, ""})
      => ret[c] = Str("[" \o reply[c].d.className \o "]")

\* C10 witness: the handle of an HTMLDivElement was returned as
\* "[HTMLDivElement]".
C10_Witness ==
  \E c \in Callers :
    /\ reply[c].kind = "desc" /\ ~reply[c].d.exc /\ reply[c].d.hasResult
    /\ reply[c].d.value = Undefined /\ reply[c].d.type = "object"
    /\ reply[c].d.className = "HTMLDivElement"
    /\ ret[c] = Str("[HTMLDivElement]")

\* C11: every reply is reduced to one outcome, and a reply without
\* exception details and without a value gives "[Function]" for type
\* "function", undefined for type "undefined" and "[T]" for any other type
\* tag T, "object" without a className included (an "object" that carries a
\* className is the object-handle rule of C10).
C11_ReductionTotal ==
  \A c \in Callers :
    reply[c].kind = "desc" =>
      /\ ret[c] # NoRet
      /\ (~reply[c].d.exc /\ reply[c].d.hasResult /\ reply[c].d.value = Undefined)
           => CASE reply[c].d.type = "function" -> ret[c] = Str("[Function]")
                [] reply[c].d.type = "undefined" -> ret[c] = Undefined
                [] reply[c].d.type = "object" /\ reply[c].d.className # ABSENT -> TRUE
                [] OTHER -> ret[c] = Str("[" \o reply[c].d.type \o "]")

\* C11 witness: a valueless reply typed "function" that carries a className
\* was reduced to "[Function]".
C11_Witness ==
  \E c \in Callers :
    /\ reply[c].kind = "desc" /\ ~reply[c].d.exc /\ reply[c].d.hasResult
    /\ reply[c].d.value = Undefined /\ reply[c].d.type = "function"
    /\ reply[c].d.className = "Object"
    /\ ret[c] = Str("[Function]")

\* C20: when the process has exited with no Session cached, close() was
\* called on no transport, whether none was ever opened, the attempt failed
\* or the attempt was still in flight.
C20_NoCloseWithoutSession ==
  (proc = "exited" /\ activeClient = 0) => \A t \in Transports : closeCalls[t] = 0

\* C20 witness: the process has exited while an attempt was in flight (its
\* transport open, no Session cached) and after another attempt had failed.
C20_Witness ==
  /\ proc = "exited" /\ activeClient = 0
  /\ \E t \in Transports : tstate[t] = "open"
  /\ \E t \in Transports : tstate[t] = "failed"
  /\ \A t \in Transports : closeCalls[t] = 0

\* the HTTP request of caller c was accepted (it carried a script) and its
\* handler has run to its end
Accepted(c, r) ==
  pc[c] = "answered" /\ route[c] = r /\ ~MissingCode(res[c].code)

\* executeJS produced the Failure variant for caller c: the acquisition or
\* the evaluation raised, or the target reported exception details
FailureVariant(c) ==
  \/ reply[c].kind = "error"
  \/ reply[c].kind = "desc" /\ (reply[c].d.exc \/ ~reply[c].d.hasResult)

\* C12: POST /execute with a script answers 400 with the failure payload when
\* the evaluation produced the Failure variant, and 200 with the reduced
\* result in the `result` field when it produced any other variant.
C12_ExecuteStatusByVariant ==
  \A c \in HttpCallers :
    Accepted(c, "execute") =>
      IF FailureVariant(c)
        THEN res[c].status = 400 /\ res[c].body = ret[c]
        ELSE res[c].status = 200 /\ res[c].body = JsonField(ret[c])

\* C13: a request without the script-text field, on either route, is
\* answered 400 with an error payload and nothing else happens for it: no
\* connectToCDP or executeJS call, no event-stream headers, no frame, no
\* handler attached.
C13_MissingCodeOnly400 ==
  \A c \in HttpCallers :
    (route[c] # "none" /\ res[c].code = ABSENT) =>
      /\ pc[c] = "answered"
      /\ res[c].status = 400 /\ res[c].key = "error" /\ res[c].ends = 1
      /\ op[c] = "none" /\ client[c] = 0 /\ sess[c] = 0
      /\ reply[c] = NoReply /\ ret[c] = NoRet
      /\ ~res[c].sse /\ res[c].frames = << >> /\ res[c].lateWrites = 0
      /\ listeners[c] = {}

\* C13 witness: a streaming request without the field was answered 400 while
\* a Session was cached.
C13_Witness ==
  \E c \in HttpCallers :
    /\ route[c] = "stream" /\ res[c].code = ABSENT /\ res[c].live
    /\ res[c].status = 400 /\ pc[c] = "answered"

\* the frames of kind k in the sequence fs
FramesOf(fs, k) == {i \in 1..Len(fs) : fs[i].type = k}
\* the terminal frames in fs
TerminalFrames(fs) == FramesOf(fs, "result") \cup FramesOf(fs, "error")

\* C14: an accepted streaming request that arrives while a Session is cached
\* writes its console frames and then, last, the `result` frame that carries
\* the reduced value; no other frame is written.
C14_ConsoleFramesThenResult ==
  \A c \in HttpCallers :
    (Accepted(c, "stream") /\ res[c].live) =>
      /\ res[c].frames # << >>
      /\ res[c].frames[Len(res[c].frames)] = ResultFrame(ret[c])
      /\ \A i \in 1..(Len(res[c].frames) - 1) : res[c].frames[i].type = "console"
      /\ reply[c].kind = "desc"

\* C15: an accepted streaming request writes one terminal frame (`result` or
\* `error`), ends the response once, and writes nothing after the end.
C15_OneTerminalFrameOneEnd ==
  \A c \in HttpCallers :
    Accepted(c, "stream") =>
      /\ Cardinality(TerminalFrames(res[c].frames)) = 1
      /\ res[c].ends = 1
      /\ res[c].lateWrites = 0

C17_NoSessionStillProceeds ==
  \A c \in HttpCallers :
    (Accepted(c, "stream") /\ ~res[c].live) =>
      /\ ret[c] # NoRet
      /\ Len(res[c].frames) = 1
      /\ res[c].frames[1].type \in {"result", "error"}
      /\ res[c].ends = 1 /\ res[c].lateWrites = 0

\* C18: in a streaming response whose script was evaluated, the terminal
\* frame is an `error` frame carrying the failure message when executeJS
\* produced the Failure variant, and a `result` frame only otherwise.
C18_TerminalFrameDiscriminates ==
  \A c \in HttpCallers :
    (Accepted(c, "stream") /\ ret[c] # NoRet) =>
      IF FailureVariant(c)
        THEN /\ FramesOf(res[c].frames, "result") = {}
             /\ res[c].frames[1] = ErrorFrame(ret[c].error)
        ELSE res[c].frames[1] = ResultFrame(ret[c])

\* C19: while the evaluation of one caller is pending, no other caller waits
\* for it: the reply of another pending evaluation can be taken and gives
\* that caller its outcome, a finished evaluation can be answered (the HTTP
\* response sent, the REPL's line handler finished), a new request can be
\* accepted, and a console notification on the Session's transport is
\* written to the terminal.
C19_PendingHangsOnlyItsCaller ==
  \A c1 \in Callers :
    (proc = "running" /\ pc[c1] = "evaluating") =>
      /\ \A c2 \in Callers \ {c1} :
           /\ pc[c2] = "evaluating" =>
                \A d \in BusyDescriptors :
                  ENABLED (EvalReply(c2, d) /\ ret'[c2] = Reduce(d))
           /\ (pc[c2] = "done" /\ route[c2] = "execute") =>
                ENABLED (RespondExecute(c2) /\ res'[c2].body = ret[c2])
           /\ (pc[c2] = "done" /\ c2 = ReplCaller) => ENABLED Finish(c2)
           /\ (pc[c2] = "idle" /\ c2 \in HttpCallers) =>
                \A code \in BusyCodes :
                  ENABLED (PostExecute(c2, code) /\ pc'[c2] = "evaluating")
      /\ arrived < MaxNotifications =>
           \A event \in BusyEvents :
             ENABLED (Notify(activeClient, event) /\ rendered' > rendered)

\* C19 witness: an evaluation is pending, and another caller's request was
\* answered 200 with its result while an evaluation other than its own was
\* pending; a console notification has been written to the terminal.
C19_Witness ==
  \E c1 \in Callers, c2 \in HttpCallers :
    /\ c1 # c2
    /\ pc[c1] = "evaluating"
    /\ pc[c2] = "answered" /\ res[c2].overlapped
    /\ res[c2].status = 200 /\ res[c2].body = Num("42")
    /\ rendered > 0


(***************************************************************************)
(* The REPL, the startup, the console and the monitor.                      *)
(***************************************************************************)
\* the calls of the line handler that wait for their evaluation
PendingLines == {c \in Callers : route[c] = "repl"}

\* C21: the REPL dispatches one line at a time: no second line is handed to
\* the handler while an earlier line's evaluation is awaited, and the
\* results come out in the order the lines were submitted.
C21_OneLineAtATime ==
  /\ Cardinality(PendingLines) <= 1
  /\ \A i, j \in 1..Len(repl.log) : i < j => repl.log[i].seq < repl.log[j].seq

\* C22: the history never holds two equal adjacent entries: a dispatched
\* line is appended unless it equals the last entry, and an empty line is
\* neither appended nor evaluated.
C22_HistoryNoAdjacentDuplicates ==
  [][ /\ \A i \in 1..(Len(repl.history') - 1) :
           repl.history'[i] # repl.history'[i + 1]
      /\ \A c \in Callers, line \in ReplLines, readable \in BOOLEAN :
           ReadLine(c, line, readable) =>
             IF Trim(line) = << >>
               THEN /\ repl.history' = repl.history
                    /\ pc' = pc /\ op' = op
                    /\ repl.dispatched' = repl.dispatched
               ELSE IF repl.history # << >>
                        /\ repl.history[Len(repl.history)] = Trim(line)
                      THEN repl.history' = repl.history
                      ELSE repl.history' = Append(repl.history, Trim(line))
    ]_vars

\* C22 witness: the same line was read twice and an empty line once, and
\* the history holds the line once
C22_Witness ==
  /\ repl.reads = 3
  /\ repl.dispatched = 2
  /\ repl.history = << << "1+1" >> >>

\* historySize of readline.createInterface
HistorySize == 100

\* C23: the history never holds more entries than the configured maximum
C23_HistoryBounded == Len(repl.history) <= HistorySize

\* C24: .load of a file that cannot be read reports the file error, starts
\* no evaluation, leaves the Session as it is, prompts again and does not
\* end the process.
C24_LoadUnreadable ==
  [][ \A c \in Callers, line \in ReplLines :
        (ReadLine(c, line, FALSE) /\ StartsWith(Trim(line), LoadPrefix)) =>
          /\ repl.fileErrors' = repl.fileErrors + 1
          /\ repl.prompts' = repl.prompts + 1
          /\ pc' = pc /\ op' = op /\ bootstrapEvals' = bootstrapEvals
          /\ activeClient' = activeClient
          /\ tstate' = tstate /\ closeCalls' = closeCalls
          /\ proc' = "running" /\ exitCode' = exitCode
    ]_vars

\* C24 witness: a file error was reported, the Session is open, the process
\* runs and the prompt was shown again
C24_Witness ==
  /\ repl.fileErrors > 0
  /\ repl.prompts > 0
  /\ proc = "running"
  /\ activeClient # 0
  /\ tstate[activeClient] = "open"

\* C25: after .exit the Session's transport is closed and the process has
\* ended with status 0, whatever evaluation is in flight, and no further
\* line is dispatched.
C25_DotExitEnds ==
  (repl.history # << >> /\ repl.history[Len(repl.history)] = ExitLine) =>
    /\ proc = "exited"
    /\ exitCode = 0
    /\ activeClient # 0 =>
         (closeCalls[activeClient] >= 1 /\ tstate[activeClient] = "closed")
    /\ ~ ENABLED DotExit
    /\ \A c \in Callers, line \in ReplLines, readable \in BOOLEAN :
         ~ ENABLED ReplLine(c, line, readable)

\* C25 witness: .exit was handled while an evaluation was in flight on the
\* Session
C25_Witness ==
  /\ repl.history # << >>
  /\ repl.history[Len(repl.history)] = ExitLine
  /\ activeClient # 0
  /\ closeCalls[activeClient] >= 1
  /\ \E c \in Callers : pc[c] = "evaluating"

\* C26: the result of a line is printed exactly when it is not undefined
\* and the trimmed line does not start with console.log; the result of a
\* .load is printed exactly when it is not undefined.
C26_PrintedIffShould ==
  \A i \in 1..Len(repl.log) :
    LET e == repl.log[i]
    IN  e.printed <=>
          /\ e.ret # Undefined
          /\ \/ e.kind = "load"
             \/ e.text[1] # "console.log"

\* C26 witness: a console.log line settled with a value that is not
\* undefined, and nothing was printed for it
C26_Witness ==
  \E i \in 1..Len(repl.log) :
    /\ repl.log[i].kind = "js"
    /\ repl.log[i].text[1] = "console.log"
    /\ repl.log[i].ret # Undefined
    /\ ~ repl.log[i].printed

\* C27: every startup path starts the loop once; a readable --script is
\* evaluated once, and the loop starts only after that evaluation settled.
C27_LoopStartedOnce ==
  /\ repl.starts <= 1
  /\ repl.scriptRuns <= 1
  /\ repl.startup = "listen" => (repl.starts = 0 /\ repl.scriptRuns = 0)
  /\ repl.startup = "script" =>
       (repl.starts = 0 /\ repl.scriptRuns = 1 /\ route[ReplCaller] = "script")
  /\ repl.startup = "started" => repl.starts = 1
  /\ (repl.starts = 1 /\ repl.scriptRuns = 1) =>
       repl.scriptShown \in {"result", "nothing"}
  /\ (repl.starts = 1 /\ repl.scriptRuns = 0) =>
       repl.scriptShown \in {"none", "readError"}

\* C27 witness: the script was evaluated, its result printed, and the loop
\* was started after it
C27_Witness ==
  /\ repl.starts = 1
  /\ repl.scriptRuns = 1
  /\ repl.scriptShown = "result"
  /\ replReady

\* C28: a Session has one console subscriber, so a console notification of
\* the target is written to the terminal once.
C28_RenderedOnce ==
  /\ \A t \in Transports : subscribers[t] <= 1
  /\ rendered <= arrived

\* what C29 says an argument contributes: its value when it has one, its
\* description otherwise
ValueWhenPresent(arg) ==
  IF arg.value # Undefined THEN arg.value
  ELSE IF arg.description = ABSENT THEN Undefined
  ELSE Str(arg.description)

\* C29: a notification is written as its arguments joined by spaces, each
\* argument by its value when present (falsy values too) and by its
\* description only when the value is absent.
C29_ValueWhenPresent ==
  shown.text # ABSENT =>
    shown.text = JoinSpace([i \in 1..Len(shown.args) |->
                              ValueWhenPresent(shown.args[i])])

\* C30: when the timeout ends the monitor, the promise is rejected with the
\* message log collected so far and the description of the error.
C30_TimeoutCarriesLog ==
  (mon.state = "rejected" /\ mon.value.kind = "Error") =>
    (mon.value.hasLog /\ mon.value.error # ABSENT)


(***************************************************************************)
(* Recall, typing, the monitor's log, and the Session's transports.         *)
(***************************************************************************)
\* C31: history recall leaves the history as it is; 'up' at the oldest
\* entry does nothing; 'down' from the newest entry puts the cursor past the
\* end and empties the input line; and 0 <= historyIndex <= length(history)
\* in every state.
C31_RecallKeepsHistory ==
  /\ [](repl.historyIndex \in 0..Len(repl.history))
  /\ [][ /\ (KeyUp \/ KeyDown) => repl'.history = repl.history
         /\ (KeyUp /\ repl.historyIndex = 0) => repl' = repl
         /\ (KeyDown /\ repl.history # << >>
               /\ repl.historyIndex = Len(repl.history) - 1) =>
              (repl'.historyIndex = Len(repl.history) /\ repl'.input = << >>)
       ]_vars

\* C31 witness: 'down' from the newest of two entries has emptied the input
\* line and put the cursor past the end
C31_Witness ==
  /\ repl.via = "down"
  /\ repl.input = << >>
  /\ Len(repl.history) >= 2
  /\ repl.historyIndex = Len(repl.history)

C37_CursorAtNewestAfterSubmit ==
  repl.via = "enter" => repl.historyIndex = Len(repl.history)

\* the log the claim describes for the call k: request-start, request-body
\* when the call had a body, its chunks in stream order, response-complete
LogOfCall(k) ==
  << Msg("request-start", "") >>
    \o (IF mon.call[k].hasBody THEN << Msg("request-body", "body") >> ELSE << >>)
    \o [i \in 1..Len(mon.call[k].stream) |->
          Msg("response-chunk", mon.call[k].stream[i])]
    \o << Msg("response-complete", "") >>

\* C33: when a matching call completes, the promise is resolved with the
\* log request-start, request-body if any, the chunks in stream order and
\* one response-complete at the end; what the callback was given is in the
\* log in the same order.
C33_LogOrdered ==
  /\ (mon.state = "resolved" /\ mon.value.kind = "complete") =>
       mon.logAtSettle = LogOfCall(mon.by)
  /\ mon.callback => mon.given = mon.log

C34_ExecuteJSNeverRejects ==
  \A c \in Callers :
    /\ ret[c].t # "thrown"
    /\ res[c].status # 500
    /\ (op[c] = "executeJS" /\ reply[c].kind = "error")
         => ret[c] = CatchResult(reply[c].msg)
    /\ (reply[c].kind = "desc" /\ ~ reply[c].d.exc /\ ~ reply[c].d.hasResult)
         => ret[c] = CatchResult(TypeErrorMessage)

\* C34 witness: /execute has answered 200 with the { error } that executeJS
\* returned for a failed acquisition
C34_Witness ==
  \E c \in Callers :
    /\ route[c] = "execute"
    /\ pc[c] = "answered"
    /\ reply[c].kind = "error"
    /\ reply[c].at = "connect"
    /\ res[c].status = 200
    /\ res[c].key = "result"
    /\ res[c].body = JsonField(CatchResult(reply[c].msg))

\* C35: every transport that is open is the cached Session's (or belongs
\* to an acquisition still in progress); none stays open after a failed
\* enable or bootstrap step, and none is open once the process has exited.
C35_OpenTransportsAreCached ==
  \A t \in Transports :
    tstate[t] = "open" =>
      /\ proc = "running"
      /\ \/ activeClient = t
         \/ \E c \in Callers :
              client[c] = t /\ pc[c] \in {"enabling", "bootstrapping"}

\* C36: once a Session is cached it is never cleared or replaced: the
\* cached Session is the one cached first.
C36_SessionNeverReplaced ==
  firstSession # 0 => activeClient = firstSession

\* C38: the console subscriber of a Session is registered before any script
\* is evaluated on it, so no notification sent after Runtime.enable is
\* missed.
C38_SubscribedBeforeScripts ==
  /\ \A t \in Transports : bootstrapEvals[t] > 0 => subscribers[t] > 0
  /\ rendered >= arrived

\* C40: when the acquisition made by startREPL fails, the process exits
\* with status 1, the line handler is not installed and nothing is
\* prompted; after a --script whose evaluation failed for lack of a
\* connection, the result is reported first and startREPL makes a
\* connection attempt of its own.
C40_StartFailureExits ==
  /\ (op[ReplCaller] = "startREPL" /\ reply[ReplCaller].kind = "error") =>
       /\ proc = "exited"
       /\ exitCode = 1
       /\ ~ replReady
       /\ repl.prompts = 0
       /\ \A c \in Callers, line \in ReplLines, readable \in BOOLEAN :
            ~ ENABLED ReplLine(c, line, readable)
  /\ (op[ReplCaller] = "startREPL" /\ repl.scriptClient # 0
        /\ entry[ReplCaller] = 0) =>
       /\ repl.scriptShown = "result"
       /\ client[ReplCaller] # 0
       /\ client[ReplCaller] # repl.scriptClient

\* C40 witness: the script's evaluation failed at connect and was reported,
\* startREPL made the second attempt, it failed too, and the process has
\* exited with status 1 without a prompt
C40_Witness ==
  /\ repl.scriptRuns = 1
  /\ repl.scriptShown = "result"
  /\ repl.scriptRet.error # ABSENT
  /\ repl.scriptClient = 1
  /\ tstate[1] = "failed"
  /\ client[ReplCaller] = 2
  /\ reply[ReplCaller].kind = "error"
  /\ proc = "exited"
  /\ exitCode = 1
  /\ repl.prompts = 0

====
